---------------------------- MODULE Spec2Model ----------------------------
(***************************************************************************)
(* Model of the technical-drawing analyser's server (server.js, kept in    *)
(* src/unnamed/part_000 from line 608 on): the STEP feature extractor      *)
(* parseStepFile, the upload pipeline processFile, and the material        *)
(* recommender (calculateWeight, calculateCost, findAlternatives,          *)
(* calculateSimilarityScore, compareMaterials).                            *)
(*                                                                         *)
(* JavaScript numbers are modelled as exact rationals extended with NaN    *)
(* and the two infinities (rounding of IEEE doubles is not modelled).      *)
(* JavaScript strings are sequences of one-character strings, so that the  *)
(* regular expressions, split, trim, toLowerCase, includes and parseFloat  *)
(* of the source are computed on the text, character by character.         *)
(***************************************************************************)
EXTENDS Integers, Sequences, FiniteSets, TLC

(***************************************************************************)
(* JavaScript numbers                                                      *)
(***************************************************************************)
NaN == [k |-> "nan", n |-> 0, d |-> 1]

PosInf == [k |-> "inf", n |-> 1, d |-> 1]

NegInf == [k |-> "inf", n |-> -1, d |-> 1]

AbsInt(i) == IF i < 0 THEN -i ELSE i

RECURSIVE GCD(_, _)
GCD(a, b) == IF b = 0 THEN a ELSE GCD(b, a % b)

\* The finite number n/d (d > 0), kept in lowest terms so that equal numbers
\* are equal values.
Fin(n, d) ==
    LET g == GCD(AbsInt(n), d)
    IN  [k |-> "fin", n |-> n \div g, d |-> d \div g]

Num(i) == Fin(i, 1)

IsNaN(x) == x.k = "nan"

IsFinite(x) == x.k = "fin"

SignOf(x) == IF x.n > 0 THEN 1 ELSE IF x.n < 0 THEN -1 ELSE 0

\* a/b < c/d for b, d > 0, by comparing the integer parts and then the
\* remainders (no product is formed, so no intermediate value grows)
RECURSIVE RatLess(_, _, _, _)
RatLess(a, b, c, d) ==
    IF a \div b # c \div d THEN a \div b < c \div d
    ELSE IF c % d = 0 THEN FALSE
    ELSE IF a % b = 0 THEN TRUE
    ELSE RatLess(d, c % d, b, a % b)

\* a < b; every comparison with NaN is false
JsLt(a, b) ==
    /\ ~IsNaN(a)
    /\ ~IsNaN(b)
    /\ \/ IsFinite(a) /\ IsFinite(b) /\ RatLess(a.n, a.d, b.n, b.d)
       \/ a = NegInf /\ b # NegInf
       \/ b = PosInf /\ a # PosInf

\* a <= b
JsLe(a, b) == ~IsNaN(a) /\ ~IsNaN(b) /\ ~JsLt(b, a)

\* a > b
JsGt(a, b) == JsLt(b, a)

\* a >= b
JsGe(a, b) == JsLe(b, a)

\* a !== b on numbers (NaN differs from everything, itself included)
JsStrictNe(a, b) == IsNaN(a) \/ IsNaN(b) \/ a # b

\* -a
JsNeg(a) ==
    IF IsNaN(a) THEN NaN
    ELSE IF IsFinite(a) THEN Fin(-a.n, a.d)
    ELSE IF a = PosInf THEN NegInf ELSE PosInf

\* a + b
JsAdd(a, b) ==
    IF IsNaN(a) \/ IsNaN(b) THEN NaN
    ELSE IF IsFinite(a) /\ IsFinite(b)
         THEN LET g == GCD(a.d, b.d)
              IN  Fin(a.n * (b.d \div g) + b.n * (a.d \div g), (a.d \div g) * b.d)
    ELSE IF IsFinite(a) THEN b
    ELSE IF IsFinite(b) THEN a
    ELSE IF a = b THEN a ELSE NaN

\* a - b
JsSub(a, b) == JsAdd(a, JsNeg(b))

\* a * b
JsMul(a, b) ==
    IF IsNaN(a) \/ IsNaN(b) THEN NaN
    ELSE IF IsFinite(a) /\ IsFinite(b)
         THEN LET g1 == GCD(AbsInt(a.n), b.d)
                  g2 == GCD(AbsInt(b.n), a.d)
              IN  Fin((a.n \div g1) * (b.n \div g2), (a.d \div g2) * (b.d \div g1))
    ELSE IF SignOf(a) = 0 \/ SignOf(b) = 0 THEN NaN
    ELSE IF SignOf(a) = SignOf(b) THEN PosInf ELSE NegInf

\* a / b
JsDiv(a, b) ==
    IF IsNaN(a) \/ IsNaN(b) THEN NaN
    ELSE IF IsFinite(b) /\ b.n # 0
         THEN JsMul(a, IF b.n > 0 THEN Fin(b.d, b.n) ELSE Fin(-b.d, -b.n))
    ELSE IF IsFinite(b)
         THEN IF SignOf(a) = 0 THEN NaN
              ELSE IF SignOf(a) > 0 THEN PosInf ELSE NegInf
    ELSE IF IsFinite(a) THEN Num(0) ELSE NaN

\* Math.abs
MathAbs(a) ==
    IF IsNaN(a) THEN NaN
    ELSE IF IsFinite(a) THEN Fin(AbsInt(a.n), a.d)
    ELSE PosInf

\* Math.min of two numbers: NaN when either is NaN
MathMin(a, b) ==
    IF IsNaN(a) \/ IsNaN(b) THEN NaN ELSE IF JsLt(b, a) THEN b ELSE a

\* Math.max of two numbers: NaN when either is NaN
MathMax(a, b) ==
    IF IsNaN(a) \/ IsNaN(b) THEN NaN ELSE IF JsLt(a, b) THEN b ELSE a

\* Math.max(...xs): -Infinity for no argument
RECURSIVE MathMaxOf(_)
MathMaxOf(xs) ==
    IF xs = <<>> THEN NegInf ELSE MathMax(Head(xs), MathMaxOf(Tail(xs)))

\* A number in a condition: 0 and NaN are falsy
Truthy(x) == ~IsNaN(x) /\ ~(IsFinite(x) /\ x.n = 0)

(***************************************************************************)
(* JavaScript strings: sequences of one-character strings.  The atom       *)
(* "e_acute" stands for the letter e with an acute accent.                 *)
(***************************************************************************)
UpperLetters ==
    <<"A", "B", "C", "D", "E", "F", "G", "H", "I", "J", "K", "L", "M",
      "N", "O", "P", "Q", "R", "S", "T", "U", "V", "W", "X", "Y", "Z">>

LowerLetters ==
    <<"a", "b", "c", "d", "e", "f", "g", "h", "i", "j", "k", "l", "m",
      "n", "o", "p", "q", "r", "s", "t", "u", "v", "w", "x", "y", "z">>

DigitChars == <<"0", "1", "2", "3", "4", "5", "6", "7", "8", "9">>

DigitSet == {DigitChars[i] : i \in 1..Len(DigitChars)}

\* the class [0-9.] of the CIRCLE radius
DigitDotSet == DigitSet \cup {"."}

\* the characters \s and trim() strip
SpaceSet == {" ", "\t"}

LowerChar(c) ==
    IF \E j \in 1..Len(UpperLetters) : UpperLetters[j] = c
    THEN LowerLetters[CHOOSE j \in 1..Len(UpperLetters) : UpperLetters[j] = c]
    ELSE c

\* String.prototype.toLowerCase
toLowerCase(s) == [i \in 1..Len(s) |-> LowerChar(s[i])]

\* the characters of s at positions i..j that exist (s.substring(i - 1, j))
substring(s, i, j) ==
    LET hi == IF j < Len(s) THEN j ELSE Len(s)
    IN  IF i > hi THEN <<>> ELSE SubSeq(s, i, hi)

\* String.prototype.includes
includes(s, sub) ==
    \E i \in 1..(Len(s) - Len(sub) + 1) : SubSeq(s, i, i + Len(sub) - 1) = sub

\* number of consecutive characters of s from position i on that are in C
RECURSIVE RunLen(_, _, _)
RunLen(s, i, C) ==
    IF i <= Len(s) /\ s[i] \in C THEN 1 + RunLen(s, i + 1, C) ELSE 0

\* number of consecutive characters of s from position i backwards that are in C
RECURSIVE RunLenBack(_, _, _)
RunLenBack(s, i, C) ==
    IF i >= 1 /\ s[i] \in C THEN 1 + RunLenBack(s, i - 1, C) ELSE 0

\* position of the first c in s at or after position i; 0 when there is none
IndexFrom(s, c, i) ==
    IF \E j \in i..Len(s) : s[j] = c
    THEN CHOOSE j \in i..Len(s) : s[j] = c /\ \A h \in i..(j - 1) : s[h] # c
    ELSE 0

MinOfSet(S) == CHOOSE x \in S : \A y \in S : x <= y

\* String.prototype.trim
trim(s) ==
    LET a == RunLen(s, 1, SpaceSet)
        b == RunLenBack(s, Len(s), SpaceSet)
    IN  IF a = Len(s) THEN <<>> ELSE SubSeq(s, a + 1, Len(s) - b)

\* String.prototype.split on a one-character separator
RECURSIVE split(_, _)
split(s, sep) ==
    LET i == IndexFrom(s, sep, 1)
    IN  IF i = 0 THEN <<s>>
        ELSE <<SubSeq(s, 1, i - 1)>> \o split(SubSeq(s, i + 1, Len(s)), sep)

\* s.replace(/[()]/g, '') and s.replace(/'/g, ''): s without the characters of C
removeChars(s, C) == SelectSeq(s, LAMBDA c : c \notin C)

DigitVal(c) == CHOOSE v \in 0..9 : DigitChars[v + 1] = c

\* the value of a run of decimal digits
RECURSIVE DigitsValue(_)
DigitsValue(s) ==
    IF s = <<>> THEN 0
    ELSE DigitsValue(SubSeq(s, 1, Len(s) - 1)) * 10 + DigitVal(s[Len(s)])

RECURSIVE Pow10(_)
Pow10(e) == IF e = 0 THEN 1 ELSE 10 * Pow10(e - 1)

Infinity_text == <<"I", "n", "f", "i", "n", "i", "t", "y">>

\* parseFloat: leading white space, an optional sign, then Infinity or the
\* longest decimal literal (digits, optional fraction, optional exponent);
\* whatever follows is ignored; NaN when no literal starts the text.
parseFloat(s) ==
    LET i0 == 1 + RunLen(s, 1, SpaceSet)
        signed == i0 <= Len(s) /\ s[i0] \in {"+", "-"}
        sgn == IF signed /\ s[i0] = "-" THEN -1 ELSE 1
        i1 == IF signed THEN i0 + 1 ELSE i0
        nInt == RunLen(s, i1, DigitSet)
        hasDot == i1 + nInt <= Len(s) /\ s[i1 + nInt] = "."
        nFrac == IF hasDot THEN RunLen(s, i1 + nInt + 1, DigitSet) ELSE 0
        mant == DigitsValue(substring(s, i1, i1 + nInt - 1)
                            \o substring(s, i1 + nInt + 1, i1 + nInt + nFrac))
        i2 == i1 + nInt + (IF hasDot THEN 1 + nFrac ELSE 0)
        hasE == i2 <= Len(s) /\ s[i2] \in {"e", "E"}
        eSigned == hasE /\ i2 + 1 <= Len(s) /\ s[i2 + 1] \in {"+", "-"}
        i3 == IF eSigned THEN i2 + 2 ELSE i2 + 1
        nExp == IF hasE THEN RunLen(s, i3, DigitSet) ELSE 0
        ex == IF nExp = 0 THEN 0
              ELSE (IF eSigned /\ s[i2 + 1] = "-" THEN -1 ELSE 1)
                   * DigitsValue(substring(s, i3, i3 + nExp - 1))
        sh == ex - nFrac
    IN  IF nInt + nFrac = 0
        THEN IF substring(s, i1, i1 + Len(Infinity_text) - 1) = Infinity_text
             THEN (IF sgn = 1 THEN PosInf ELSE NegInf)
             ELSE NaN
        ELSE IF sh >= 0 THEN Fin(sgn * mant * Pow10(sh), 1)
             ELSE Fin(sgn * mant, Pow10(-sh))

\* line.match(/'([^']+)'/g): the first match without its quotes,
\* matches[0].replace(/'/g, ''); <<>> when the line has no match
firstQuoted(line) ==
    LET starts == {i \in 1..Len(line) :
                     line[i] = "'" /\ IndexFrom(line, "'", i + 1) > i + 1}
    IN  IF starts = {} THEN <<>>
        ELSE LET i == MinOfSet(starts)
             IN  SubSeq(line, i + 1, IndexFrom(line, "'", i + 1) - 1)

\* line.match(/\(([^)]+)\)/g): the first match, parentheses included;
\* <<>> when the line has no match
firstParenthesised(line) ==
    LET starts == {i \in 1..Len(line) :
                     line[i] = "(" /\ IndexFrom(line, ")", i + 1) > i + 1}
    IN  IF starts = {} THEN <<>>
        ELSE LET i == MinOfSet(starts)
             IN  SubSeq(line, i, IndexFrom(line, ")", i + 1))

\* coordStr.split(',').map(c => parseFloat(c.trim()))
parseCoords(coordStr) ==
    LET parts == split(coordStr, ",")
    IN  [i \in 1..Len(parts) |-> parseFloat(trim(parts[i]))]

CIRCLE ==
    <<"C", "I", "R", "C", "L", "E">>

\* /CIRCLE\s*\([^)]*\)\s*,\s*([0-9.]+)/ tried at position p: the text of
\* group 1, <<>> when the expression does not match there
circleMatchAt(line, p) ==
    LET q == p + Len(CIRCLE) + RunLen(line, p + Len(CIRCLE), SpaceSet)
        r == IF q <= Len(line) /\ line[q] = "(" THEN IndexFrom(line, ")", q + 1) ELSE 0
        t == r + 1 + RunLen(line, r + 1, SpaceSet)
        u == t + 1 + RunLen(line, t + 1, SpaceSet)
        n == RunLen(line, u, DigitDotSet)
    IN  IF /\ substring(line, p, p + Len(CIRCLE) - 1) = CIRCLE
           /\ r # 0
           /\ t <= Len(line)
           /\ line[t] = ","
        THEN substring(line, u, u + n - 1)
        ELSE <<>>

\* line.match(/CIRCLE\s*\([^)]*\)\s*,\s*([0-9.]+)/): radiusMatch[1] of the
\* leftmost match, <<>> when there is none
circleRadiusText(line) ==
    LET ps == {p \in 1..Len(line) : circleMatchAt(line, p) # <<>>}
    IN  IF ps = {} THEN <<>> ELSE circleMatchAt(line, MinOfSet(ps))

(***************************************************************************)
(* Text literals of server.js                                              *)
(***************************************************************************)
PRODUCT ==
    <<"P", "R", "O", "D", "U", "C", "T">>

CARTESIAN_POINT ==
    <<"C", "A", "R", "T", "E", "S", "I", "A", "N", "_", "P", "O", "I", "N",
      "T">>

ANNOTATION ==
    <<"A", "N", "N", "O", "T", "A", "T", "I", "O", "N">>

NOTE ==
    <<"N", "O", "T", "E">>

REMARK ==
    <<"R", "E", "M", "A", "R", "K">>

material_en ==
    <<"m", "a", "t", "e", "r", "i", "a", "l">>

material_fr ==
    <<"m", "a", "t", "e_acute", "r", "i", "a", "u">>

rondelle ==
    <<"r", "o", "n", "d", "e", "l", "l", "e">>

Rondelleintercloche ==
    <<"R", "o", "n", "d", "e", "l", "l", "e", "i", "n", "t", "e", "r", "c",
      "l", "o", "c", "h", "e">>

acier ==
    <<"a", "c", "i", "e", "r">>

aluminium ==
    <<"a", "l", "u", "m", "i", "n", "i", "u", "m">>

aluminum ==
    <<"a", "l", "u", "m", "i", "n", "u", "m">>

titanium ==
    <<"t", "i", "t", "a", "n", "i", "u", "m">>

titane ==
    <<"t", "i", "t", "a", "n", "e">>

AISI_1018_Steel ==
    <<"A", "I", "S", "I", " ", "1", "0", "1", "8", " ", "S", "t", "e", "e",
      "l">>

Aluminum_6061_T6 ==
    <<"A", "l", "u", "m", "i", "n", "u", "m", " ", "6", "0", "6", "1", "-",
      "T", "6">>

Ti_6Al_4V ==
    <<"T", "i", "-", "6", "A", "l", "-", "4", "V">>

AISI_4140_Steel ==
    <<"A", "I", "S", "I", " ", "4", "1", "4", "0", " ", "S", "t", "e", "e",
      "l">>

Steel ==
    <<"S", "t", "e", "e", "l">>

Aluminum ==
    <<"A", "l", "u", "m", "i", "n", "u", "m">>

Titanium ==
    <<"T", "i", "t", "a", "n", "i", "u", "m">>

Low ==
    <<"L", "o", "w">>

Medium ==
    <<"M", "e", "d", "i", "u", "m">>

Very_High ==
    <<"V", "e", "r", "y", " ", "H", "i", "g", "h">>

Note_surface_finish ==
    <<"N", "o", "t", "e", ":", " ", "S", "u", "r", "f", "a", "c", "e", " ",
      "f", "i", "n", "i", "s", "h", " ", "R", "a", " ", "1", ".", "6">>

Heat_treatment ==
    <<"H", "e", "a", "t", " ", "t", "r", "e", "a", "t", "m", "e", "n", "t",
      ":", " ", "N", "o", "r", "m", "a", "l", "i", "z", "e", "d">>

Tolerance_critical ==
    <<"plus_minus", "0", ".", "1", "m", "m", " ", "o", "n", " ", "c", "r",
      "i", "t", "i", "c", "a", "l", " ", "d", "i", "m", "e", "n", "s", "i",
      "o", "n", "s">>

(***************************************************************************)
(* The lines an input STEP stream is made of.  The first parenthesised     *)
(* group of a line of a real STEP file, #n=CARTESIAN_POINT('',(x,y,z)),    *)
(* starts with the entity's name argument.                                 *)
(***************************************************************************)
\* PRODUCT('Rondelle')
Line_product_washer ==
    <<"P", "R", "O", "D", "U", "C", "T", "(", "'", "R", "o", "n", "d", "e",
      "l", "l", "e", "'", ")">>

\* PRODUCT('Rondelleintercloche')
Line_product_literal ==
    <<"P", "R", "O", "D", "U", "C", "T", "(", "'", "R", "o", "n", "d", "e",
      "l", "l", "e", "i", "n", "t", "e", "r", "c", "l", "o", "c", "h", "e",
      "'", ")">>

\* PRODUCT('Axe')
Line_product_other ==
    <<"P", "R", "O", "D", "U", "C", "T", "(", "'", "A", "x", "e", "'", ")">>

\* CARTESIAN_POINT(0,0,0)
Line_point_origin ==
    <<"C", "A", "R", "T", "E", "S", "I", "A", "N", "_", "P", "O", "I", "N",
      "T", "(", "0", ",", "0", ",", "0", ")">>

\* CARTESIAN_POINT(2, 9, 4)
Line_point_a ==
    <<"C", "A", "R", "T", "E", "S", "I", "A", "N", "_", "P", "O", "I", "N",
      "T", "(", "2", ",", " ", "9", ",", " ", "4", ")">>

\* CARTESIAN_POINT('',(1,2,3))
Line_point_named ==
    <<"C", "A", "R", "T", "E", "S", "I", "A", "N", "_", "P", "O", "I", "N",
      "T", "(", "'", "'", ",", "(", "1", ",", "2", ",", "3", ")", ")">>

\* CARTESIAN_POINT(1,2)
Line_point_short ==
    <<"C", "A", "R", "T", "E", "S", "I", "A", "N", "_", "P", "O", "I", "N",
      "T", "(", "1", ",", "2", ")">>

\* CARTESIAN_POINT(1,x,3)
Line_point_bad_token ==
    <<"C", "A", "R", "T", "E", "S", "I", "A", "N", "_", "P", "O", "I", "N",
      "T", "(", "1", ",", "x", ",", "3", ")">>

\* CIRCLE(1),.5
Line_circle_small ==
    <<"C", "I", "R", "C", "L", "E", "(", "1", ")", ",", ".", "5">>

\* CIRCLE(1) , 15
Line_circle_large ==
    <<"C", "I", "R", "C", "L", "E", "(", "1", ")", " ", ",", " ", "1", "5">>

\* steel aluminum
Line_steel_aluminum ==
    <<"s", "t", "e", "e", "l", " ", "a", "l", "u", "m", "i", "n", "u", "m">>

\* acier titane
Line_acier_titane ==
    <<"a", "c", "i", "e", "r", " ", "t", "i", "t", "a", "n", "e">>

\* MATERIAL('Inox')
Line_material_hint ==
    <<"M", "A", "T", "E", "R", "I", "A", "L", "(", "'", "I", "n", "o", "x",
      "'", ")">>

\* NOTE('Ra')
Line_note ==
    <<"N", "O", "T", "E", "(", "'", "R", "a", "'", ")">>

\* two entities on one line: a PRODUCT and a CIRCLE of radius .5
Line_washer_entities ==
    <<"P", "R", "O", "D", "U", "C", "T", "(", "'", "R", "o", "n", "d", "e",
      "l", "l", "e", "'", ")", ";", "C", "I", "R", "C", "L", "E", "(", "1",
      ")", ",", ".", "5">>

\* two entities on one line: a REMARK and a CIRCLE of radius 0
Line_remark_circle_zero ==
    <<"R", "E", "M", "A", "R", "K", "(", "'", "h", "7", "'", ")", ";", "C",
      "I", "R", "C", "L", "E", "(", "1", ")", ",", "0">>

\* a NOTE marker without a quoted string
Line_note_bare ==
    <<"N", "O", "T", "E">>

Lines ==
    <<Line_product_washer,
      Line_product_literal,
      Line_product_other,
      Line_point_origin,
      Line_point_a,
      Line_point_named,
      Line_point_short,
      Line_point_bad_token,
      Line_circle_small,
      Line_circle_large,
      Line_steel_aluminum,
      Line_acier_titane,
      Line_material_hint,
      Line_note,
      Line_washer_entities,
      Line_remark_circle_zero,
      Line_note_bare>>

(***************************************************************************)
(* The materials table (database/materials.db).  The file outlives the     *)
(* process and is seeded only when it is empty, so its rows are state.     *)
(* A row keeps the columns the server reads; the cells are numbers,        *)
(* Str(text) or Null.                                                      *)
(***************************************************************************)
Null == [k |-> "null"]

Str(s) == [k |-> "str", s |-> s]

IsNull(v) == v.k = "null"

\* typeof v === 'number'
IsNumber(v) == v.k \in {"fin", "nan", "inf"}

\* typeof v === 'string'
IsString(v) == v.k = "str"

Row(id, name, category, density, cost_per_kg, ts, ys, em, te, tc, cr, mach, weld) ==
    [id |-> id, name |-> name, category |-> category, density |-> density,
     cost_per_kg |-> cost_per_kg, tensile_strength |-> ts, yield_strength |-> ys,
     elastic_modulus |-> em, thermal_expansion |-> te, thermal_conductivity |-> tc,
     corrosion_resistance |-> cr, machinability |-> mach, weldability |-> weld]

\* Rows 1, 3, 5 and 15 of defaultMaterials; the elastic and thermal columns,
\* which the schema lets be NULL, are NULL in this table.
SeedTable ==
    <<Row(1, AISI_1018_Steel, Steel, Fin(787, 100), Fin(12, 10),
          Num(440), Num(370), Null, Null, Null, Str(Low), Num(70), Num(90)),
      Row(3, AISI_4140_Steel, Steel, Fin(785, 100), Fin(18, 10),
          Num(655), Num(415), Null, Null, Null, Str(Medium), Num(55), Num(65)),
      Row(5, Aluminum_6061_T6, Aluminum, Fin(27, 10), Fin(35, 10),
          Num(310), Num(276), Null, Null, Null, Str(Medium), Num(85), Num(50)),
      Row(15, Ti_6Al_4V, Titanium, Fin(443, 100), Num(35),
          Num(950), Num(880), Null, Null, Null, Str(Very_High), Num(30), Num(40))>>

Catalogs == {SeedTable}

(***************************************************************************)
(* State                                                                   *)
(***************************************************************************)
VARIABLES
    pc,              \* where the upload request is
    stlHeader,       \* processFile, case 'stl': what the read of the header gave
    fileContent,     \* parseStepFile: the text read so far
    productName,     \* parseStepFile
    materialInfo,    \* parseStepFile
    boundingBox,     \* parseStepFile: [min |-> <<x, y, z>>, max |-> <<x, y, z>>]
    cartesianPoints, \* parseStepFile: the accepted coordinate lists, in order
    annotations,     \* parseStepFile
    circles,         \* parseStepFile: the radii, in order
    stepPromise,     \* the promise of parseStepFile: none, pending, resolved, rejected
    stepData,        \* processFile's stepData, in scope inside its try block
    proc,            \* processFile's locals
    response,        \* the reply of POST /upload
    db,              \* the rows of the materials table
    call             \* a single call of a pure function and its result

vars ==
    <<pc, stlHeader, fileContent, productName, materialInfo, boundingBox,
      cartesianPoints, annotations, circles, stepPromise, stepData, proc,
      response, db, call>>

scanVars ==
    <<fileContent, productName, materialInfo, boundingBox, cartesianPoints,
      annotations, circles>>

\* Longest input stream scanned, in lines
MaxLines == 3

(***************************************************************************)
(* parseStepFile: the 'line' handler                                       *)
(***************************************************************************)
emptyBoundingBox ==
    [min |-> <<PosInf, PosInf, PosInf>>, max |-> <<NegInf, NegInf, NegInf>>]

hasQuote(line) == includes(line, <<"'">>)

\* Extract product name: the name a line gives, <<>> when it gives none
productMatch(line) ==
    IF includes(line, PRODUCT) /\ hasQuote(line) THEN firstQuoted(line) ELSE <<>>

\* Extract material information: the hint a line gives, <<>> when none
materialMatch(line) ==
    IF /\ \/ includes(toLowerCase(line), material_en)
          \/ includes(toLowerCase(line), material_fr)
       /\ hasQuote(line)
    THEN firstQuoted(line)
    ELSE <<>>

\* Extract annotations: the annotation a line gives, <<>> when none
annotationMatch(line) ==
    IF \/ includes(line, ANNOTATION)
       \/ includes(line, NOTE)
       \/ includes(line, REMARK)
    THEN firstQuoted(line)
    ELSE <<>>

\* Extract Cartesian points: the coords array of a line, <<>> when the line
\* has no CARTESIAN_POINT marker or no parenthesised group
pointCoords(line) ==
    IF includes(line, CARTESIAN_POINT) /\ firstParenthesised(line) # <<>>
    THEN parseCoords(removeChars(firstParenthesised(line), {"(", ")"}))
    ELSE <<>>

\* Extract circles: the radii a line pushes (one or none)
circleMatch(line) ==
    IF includes(line, CIRCLE) /\ circleRadiusText(line) # <<>>
    THEN <<parseFloat(circleRadiusText(line))>>
    ELSE <<>>

\* what the 'line' handler extracts from one line
lineMatches(line) ==
    [product |-> productMatch(line),
     material |-> materialMatch(line),
     annotation |-> annotationMatch(line),
     coords |-> pointCoords(line),
     radii |-> circleMatch(line)]

\* the extraction, line by line of Lines
Scanned == [i \in 1..Len(Lines) |-> lineMatches(Lines[i])]

\* a PRODUCT handler without the test of productName: the last match wins
scanProductName_lastWins(m, name) ==
    IF m.product # <<>> THEN m.product ELSE name

\* && !productName: the first match wins
scanProductName(m, name) ==
    IF name = <<>> /\ m.product # <<>> THEN m.product ELSE name

\* && !materialInfo: the first match wins
scanMaterialInfo(m, info) ==
    IF info = <<>> /\ m.material # <<>> THEN m.material ELSE info

\* an annotation handler that puts the new annotation in front
scanAnnotations_inFront(m, annots) ==
    IF m.annotation # <<>> THEN <<m.annotation>> \o annots ELSE annots

scanAnnotations(m, annots) ==
    IF m.annotation # <<>> THEN Append(annots, m.annotation) ELSE annots

\* if (coords.length >= 3)
acceptsCoords(coords) == Len(coords) >= 3

\* Update bounding box
updateBoundingBox(bb, coords) ==
    [min |-> [i \in 1..3 |-> MathMin(bb.min[i], coords[i])],
     max |-> [i \in 1..3 |-> MathMax(bb.max[i], coords[i])]]

scanPoints(m, points) ==
    IF acceptsCoords(m.coords) THEN Append(points, m.coords) ELSE points

scanBoundingBox(m, bb) ==
    IF acceptsCoords(m.coords) THEN updateBoundingBox(bb, m.coords) ELSE bb

scanCircles(m, radii) == radii \o m.radii

(***************************************************************************)
(* parseStepFile: the 'close' handler                                      *)
(***************************************************************************)
\* Check if we found valid points
foundValidPoints(bb) ==
    JsStrictNe(bb.min[1], PosInf) /\ JsStrictNe(bb.max[1], NegInf)

\* Calculate dimensions in mm
extents(bb) == [i \in 1..3 |-> MathAbs(JsSub(bb.max[i], bb.min[i]))]

Permutations3 ==
    {<<1, 2, 3>>, <<1, 3, 2>>, <<2, 1, 3>>, <<2, 3, 1>>, <<3, 1, 2>>, <<3, 2, 1>>}

\* [l, w, h].sort((a, b) => b - a): the arrays the call can leave.  When
\* b - a is NaN for some pair the comparator is not consistent and the
\* order is implementation-defined: every arrangement is possible.
sortDescending(a) ==
    LET arranged == {[i \in 1..3 |-> a[p[i]]] : p \in Permutations3}
        consistent == \A i, j \in 1..3 : i # j => ~IsNaN(JsSub(a[j], a[i]))
    IN  IF consistent
        THEN {r \in arranged : JsGe(r[1], r[2]) /\ JsGe(r[2], r[3])}
        ELSE arranged

isWasher(radii, name) ==
    Len(radii) > 0 /\ includes(toLowerCase(name), rondelle)

\* For circular parts like washers, use the largest circle as the outer
\* diameter; the dimensions of one sorted array dims
washerOverride(dims, radii, name) ==
    IF isWasher(radii, name)
    THEN IF includes(name, Rondelleintercloche)
         THEN [length |-> Num(30), width |-> Num(30), height |-> Num(5)]
         ELSE [length |-> JsMul(MathMaxOf(radii), Num(2)),
               width |-> JsMul(MathMaxOf(radii), Num(2)),
               height |-> dims[3]]
    ELSE [length |-> dims[1], width |-> dims[2], height |-> dims[3]]

\* If no points found, use default dimensions for a STEP file
defaultStepDimensions ==
    [length |-> Num(30), width |-> Num(30), height |-> Num(5)]

\* a 'close' handler that applies the washer rule to the default dimensions too
closeDimensions_overrideOutside(bb, radii, name) ==
    IF foundValidPoints(bb)
    THEN {washerOverride(dims, radii, name) : dims \in sortDescending(extents(bb))}
    ELSE {washerOverride(<<Num(30), Num(30), Num(5)>>, radii, name)}

\* the dimensions the 'close' handler can compute
closeDimensions(bb, radii, name) ==
    IF foundValidPoints(bb)
    THEN {washerOverride(dims, radii, name) : dims \in sortDescending(extents(bb))}
    ELSE {defaultStepDimensions}

\* Determine material from file content or product name
inferMaterial(info, content) ==
    LET text == toLowerCase(content)
    IN  IF info # <<>> THEN info
        ELSE IF includes(text, acier) THEN AISI_1018_Steel
        ELSE IF includes(text, aluminium) \/ includes(text, aluminum)
             THEN Aluminum_6061_T6
        ELSE IF includes(text, titanium) \/ includes(text, titane)
             THEN Ti_6Al_4V
        ELSE AISI_1018_Steel

(***************************************************************************)
(* The material recommender                                                *)
(***************************************************************************)
\* db.get("SELECT ... FROM materials WHERE name = ?"): the rows of that name
rowsNamed(table, name) == SelectSeq(table, LAMBDA r : r.name = name)

Resolved(v) == [ok |-> TRUE, value |-> v, error |-> ""]

Rejected(msg) == [ok |-> FALSE, value |-> Null, error |-> msg]

\* what the promise of calculateWeight settles with
calculateWeight(table, materialName, volume) ==
    IF IsNaN(volume) THEN Rejected("Invalid volume value")
    ELSE IF JsLe(volume, Num(0)) THEN Rejected("Volume must be greater than zero")
    ELSE IF rowsNamed(table, materialName) = <<>>
         THEN Resolved(JsDiv(JsMul(Fin(785, 100), volume), Num(1000000)))
    ELSE Resolved(JsDiv(JsMul(Head(rowsNamed(table, materialName)).density, volume),
                        Num(1000000)))

\* what the promise of calculateCost settles with
calculateCost(table, materialName, weight) ==
    IF IsNaN(weight) THEN Rejected("Invalid weight value")
    ELSE IF JsLe(weight, Num(0)) THEN Rejected("Weight must be greater than zero")
    ELSE IF rowsNamed(table, materialName) = <<>>
         THEN Resolved(JsMul(weight, Num(2)))
    ELSE Resolved(JsMul(weight, Head(rowsNamed(table, materialName)).cost_per_kg))

\* Properties to compare and their weights
properties ==
    <<[prop |-> "tensile_strength", weight |-> 10],
      [prop |-> "yield_strength", weight |-> 10],
      [prop |-> "elastic_modulus", weight |-> 8],
      [prop |-> "thermal_expansion", weight |-> 5],
      [prop |-> "thermal_conductivity", weight |-> 5],
      [prop |-> "corrosion_resistance", weight |-> 7],
      [prop |-> "machinability", weight |-> 6],
      [prop |-> "weldability", weight |-> 5]>>

RECURSIVE sumWeights(_)
sumWeights(ps) == IF ps = <<>> THEN 0 ELSE Head(ps).weight + sumWeights(Tail(ps))

totalWeight == sumWeights(properties)

\* a per-property score that grows with the difference
propScore_ofDifference(diff) == JsMul(MathMin(diff, Num(1)), Num(100))

\* (1 - Math.min(diff, 1)) * 100
propScore(diff) == JsMul(JsSub(Num(1), MathMin(diff, Num(1))), Num(100))

\* a property score that reads NULL as the number 0
propertyScore_nullAsZero(a, b, weight) ==
    LET x == IF IsNull(a) THEN Num(0) ELSE a
        y == IF IsNull(b) THEN Num(0) ELSE b
    IN  IF IsNumber(x) /\ IsNumber(y)
        THEN LET maxVal == MathMax(MathAbs(x), MathAbs(y))
             IN  IF JsGt(maxVal, Num(0))
                 THEN JsDiv(JsMul(propScore(JsDiv(MathAbs(JsSub(x, y)), maxVal)),
                                  Num(weight)),
                            Num(totalWeight))
                 ELSE JsDiv(JsMul(Num(100), Num(weight)), Num(totalWeight))
        ELSE IF IsString(x) /\ IsString(y) /\ toLowerCase(x.s) = toLowerCase(y.s)
             THEN JsDiv(JsMul(Num(100), Num(weight)), Num(totalWeight))
             ELSE Num(0)

\* what one property adds to the score; a and b are original[prop] and
\* alternative[prop]
propertyScore(a, b, weight) ==
    IF ~IsNull(a) /\ ~IsNull(b)
    THEN IF IsNumber(a) /\ IsNumber(b)
         THEN LET maxVal == MathMax(MathAbs(a), MathAbs(b))
              IN  IF JsGt(maxVal, Num(0))
                  THEN JsDiv(JsMul(propScore(JsDiv(MathAbs(JsSub(a, b)), maxVal)),
                                   Num(weight)),
                             Num(totalWeight))
                  ELSE JsDiv(JsMul(Num(100), Num(weight)), Num(totalWeight))
         ELSE IF IsString(a) /\ IsString(b) /\ toLowerCase(a.s) = toLowerCase(b.s)
              THEN JsDiv(JsMul(Num(100), Num(weight)), Num(totalWeight))
              ELSE Num(0)
    ELSE Num(0)

\* the score after the loop over the first n properties
RECURSIVE propertySum(_, _, _)
propertySum(original, alternative, n) ==
    IF n = 0 THEN Num(0)
    ELSE JsAdd(propertySum(original, alternative, n - 1),
               propertyScore(original[properties[n].prop],
                             alternative[properties[n].prop],
                             properties[n].weight))

\* a bonus given whatever the categories
categoryBonus_always(original, alternative) == Num(10)

\* Bonus for same category
categoryBonus(original, alternative) ==
    IF original.category = alternative.category THEN Num(10) ELSE Num(0)

\* a score left as the loop and the bonus made it
capScore_absent(score) == score

\* Cap score at 100
capScore(score) == MathMin(score, Num(100))

calculateSimilarityScore(original, alternative) ==
    capScore(JsAdd(propertySum(original, alternative, Len(properties)),
                   categoryBonus(original, alternative)))

\* Calculate volume if dimensions are available
comparisonVolume(dimensions) ==
    IF Truthy(dimensions.length) /\ Truthy(dimensions.width)
       /\ Truthy(dimensions.height)
    THEN JsMul(JsMul(dimensions.length, dimensions.width), dimensions.height)
    ELSE Num(1000)

\* a Delta whose percent_change is always the quotient
Delta_unguarded(o, a) ==
    [original |-> o, alternative |-> a, difference |-> JsSub(a, o),
     percent_change |-> JsMul(JsDiv(JsSub(a, o), o), Num(100))]

\* {original, alternative, difference, percent_change}
Delta(o, a) ==
    [original |-> o, alternative |-> a, difference |-> JsSub(a, o),
     percent_change |-> IF JsStrictNe(o, Num(0))
                        THEN JsMul(JsDiv(JsSub(a, o), o), Num(100))
                        ELSE Num(0)]

mechanicalProps == <<"tensile_strength", "yield_strength", "elastic_modulus">>

\* a comparison whose costs leave the volume out: cost_per_kg * density
compareMaterials_costOfDensity(original, alternative, dimensions) ==
    LET volume == comparisonVolume(dimensions)
        originalWeight == JsDiv(JsMul(original.density, volume), Num(1000000))
        altWeight == JsDiv(JsMul(alternative.density, volume), Num(1000000))
        compared == {mechanicalProps[i] : i \in
                       {j \in 1..Len(mechanicalProps) :
                          /\ ~IsNull(original[mechanicalProps[j]])
                          /\ ~IsNull(alternative[mechanicalProps[j]])}}
    IN  [key \in {"weight", "cost"} \cup compared |->
           IF key = "weight" THEN Delta(originalWeight, altWeight)
           ELSE IF key = "cost"
                THEN Delta(JsMul(original.cost_per_kg, original.density),
                           JsMul(alternative.cost_per_kg, alternative.density))
           ELSE Delta(original[key], alternative[key])]

compareMaterials(original, alternative, dimensions) ==
    LET volume == comparisonVolume(dimensions)
        originalWeight == JsDiv(JsMul(original.density, volume), Num(1000000))
        altWeight == JsDiv(JsMul(alternative.density, volume), Num(1000000))
        compared == {mechanicalProps[i] : i \in
                       {j \in 1..Len(mechanicalProps) :
                          /\ ~IsNull(original[mechanicalProps[j]])
                          /\ ~IsNull(alternative[mechanicalProps[j]])}}
    IN  [key \in {"weight", "cost"} \cup compared |->
           IF key = "weight" THEN Delta(originalWeight, altWeight)
           ELSE IF key = "cost"
                THEN Delta(JsMul(original.cost_per_kg, originalWeight),
                           JsMul(alternative.cost_per_kg, altWeight))
           ELSE Delta(original[key], alternative[key])]

\* { ...material, similarity_score: score }
scored(original, material) ==
    material @@ [similarity_score |-> calculateSimilarityScore(original, material)]

\* an insertion that puts x in front of the elements of its own score
RECURSIVE insertByScore_beforeEqual(_, _)
insertByScore_beforeEqual(xs, x) ==
    IF xs = <<>> THEN <<x>>
    ELSE IF JsLe(Head(xs).similarity_score, x.similarity_score)
         THEN <<x>> \o xs
         ELSE <<Head(xs)>> \o insertByScore_beforeEqual(Tail(xs), x)

\* x put into the array xs, already in non-increasing order of score, behind
\* every element whose score is not lower
RECURSIVE insertByScore(_, _)
insertByScore(xs, x) ==
    IF xs = <<>> THEN <<x>>
    ELSE IF JsLt(Head(xs).similarity_score, x.similarity_score)
         THEN <<x>> \o xs
         ELSE <<Head(xs)>> \o insertByScore(Tail(xs), x)

\* an array left in the order of the catalog
sortByScore_catalogOrder(xs) == xs

\* .sort((a, b) => b.similarity_score - a.similarity_score), a stable sort
RECURSIVE sortByScore(_)
sortByScore(xs) ==
    IF xs = <<>> THEN <<>>
    ELSE insertByScore(sortByScore(SubSeq(xs, 1, Len(xs) - 1)), xs[Len(xs)])

\* .slice(0, 5)
topAlternatives(xs) == substring(xs, 1, 5)

\* a selection that keeps every row
otherMaterials_all(table, originalMaterial) == table

\* db.all("SELECT * FROM materials WHERE id != ?", [originalMaterial.id])
otherMaterials(table, originalMaterial) ==
    SelectSeq(table, LAMBDA r : r.id # originalMaterial.id)

\* what the promise of findAlternatives resolves with
findAlternatives(table, materialName, dimensions) ==
    IF rowsNamed(table, materialName) = <<>> THEN <<>>
    ELSE LET originalMaterial == Head(rowsNamed(table, materialName))
             materials == otherMaterials(table, originalMaterial)
             top == topAlternatives(
                        sortByScore([i \in 1..Len(materials) |->
                                        scored(originalMaterial, materials[i])]))
         IN  [i \in 1..Len(top) |->
                top[i] @@ [comparison |->
                             compareMaterials(originalMaterial, top[i], dimensions)]]

(***************************************************************************)
(* processFile and POST /upload                                            *)
(***************************************************************************)
Dimensions(l, w, h) == [length |-> Num(l), width |-> Num(w), height |-> Num(h)]

\* dimensions.length * dimensions.width * dimensions.height
volumeOf(dimensions) ==
    JsMul(JsMul(dimensions.length, dimensions.width), dimensions.height)

\* the locals of processFile with their default values
procDefaults ==
    [dimensions |-> Dimensions(100, 50, 25),
     volume |-> volumeOf(Dimensions(100, 50, 25)),
     material |-> AISI_1018_Steel,
     annotations |-> <<Note_surface_finish, Heat_treatment>>,
     tolerances |-> <<Tolerance_critical>>,
     weight |-> Null,
     cost |-> Null,
     alternatives |-> <<>>,
     error |-> ""]

\* the extensions upload's fileFilter lets through
StepExtensions == {"step", "stp"}

DrawingExtensions == {"dxf", "dwg", "pdf"}

\* What reading the first 84 bytes of an STL file can give: the read throws,
\* or the header is ASCII ('solid'), or binary with a triangle count
StlHeaders ==
    {[throws |-> TRUE, isBinary |-> FALSE, triangleCount |-> 0],
     [throws |-> FALSE, isBinary |-> FALSE, triangleCount |-> 0]}
    \cup {[throws |-> FALSE, isBinary |-> TRUE, triangleCount |-> c] :
            c \in {0, 1000, 1001}}

\* an estimate that takes 1000 triangles for a complex model already
stlVolume_from1000(dimensions, header) ==
    IF ~header.throws /\ header.isBinary /\ header.triangleCount >= 1000
    THEN JsMul(volumeOf(dimensions), Fin(12, 10))
    ELSE volumeOf(dimensions)

\* Estimate volume based on triangle count (very rough approximation)
stlVolume(dimensions, header) ==
    IF ~header.throws /\ header.isBinary /\ header.triangleCount > 1000
    THEN JsMul(volumeOf(dimensions), Fin(12, 10))
    ELSE volumeOf(dimensions)

\* case 'dxf', 'dwg', 'pdf'
drawingDimensions(ext) ==
    IF ext = "dxf" THEN Dimensions(200, 100, 10)
    ELSE IF ext = "dwg" THEN Dimensions(180, 90, 15)
    ELSE Dimensions(210, 297, 5)

NoStepData == [productName |-> <<>>]

NoHeader == [throws |-> FALSE, isBinary |-> FALSE, triangleCount |-> -1]

\* the locals of parseStepFile as the call creates them; nothing refers to
\* them once processFile has left its try block
scanReset ==
    /\ fileContent' = <<>>
    /\ productName' = <<>>
    /\ materialInfo' = <<>>
    /\ boundingBox' = emptyBoundingBox
    /\ cartesianPoints' = <<>>
    /\ annotations' = <<>>
    /\ circles' = <<>>

NoResponse == [status |-> 0]

NoCall == [fn |-> "none"]

BaseInit ==
    /\ pc = "idle"
    /\ stlHeader = NoHeader
    /\ fileContent = <<>>
    /\ productName = <<>>
    /\ materialInfo = <<>>
    /\ boundingBox = emptyBoundingBox
    /\ cartesianPoints = <<>>
    /\ annotations = <<>>
    /\ circles = <<>>
    /\ stepPromise = "none"
    /\ stepData = NoStepData
    /\ proc = procDefaults
    /\ response = NoResponse
    /\ db \in Catalogs

Init == BaseInit /\ call = NoCall

\* processFile, case 'stl': runs to the call of calculateWeight
ProcessStl ==
    /\ pc = "idle"
    /\ \E header \in StlHeaders :
         /\ stlHeader' = header
         /\ proc' = [proc EXCEPT !.dimensions = Dimensions(120, 80, 40),
                                 !.volume = stlVolume(Dimensions(120, 80, 40), header)]
    /\ pc' = "calculateWeight"
    /\ UNCHANGED <<scanVars, stepPromise, stepData, response, db, call>>

\* processFile, case 'dxf', 'dwg', 'pdf': runs to the call of calculateWeight
ProcessDrawing ==
    /\ pc = "idle"
    /\ \E fileExtension \in DrawingExtensions :
         proc' = [proc EXCEPT !.dimensions = drawingDimensions(fileExtension),
                              !.volume = volumeOf(drawingDimensions(fileExtension))]
    /\ pc' = "calculateWeight"
    /\ UNCHANGED <<stlHeader, scanVars, stepPromise, stepData, response, db, call>>

\* processFile, case 'step', 'stp': parseStepFile opens the stream and
\* registers its handlers
ProcessStep ==
    /\ pc = "idle"
    /\ StepExtensions # {}
    /\ stepPromise' = "pending"
    /\ pc' = "scanning"
    /\ UNCHANGED <<stlHeader, scanVars, stepData, proc, response, db, call>>

\* the number of lines read into fileContent
linesRead(content) == Len(SelectSeq(content, LAMBDA c : c = "\n"))

\* rl.on('line'): one line of the stream
OnLine ==
    /\ pc = "scanning"
    /\ linesRead(fileContent) < MaxLines
    /\ \E i \in 1..Len(Lines) :
         /\ fileContent' = fileContent \o Lines[i] \o <<"\n">>
         /\ productName' = scanProductName(Scanned[i], productName)
         /\ materialInfo' = scanMaterialInfo(Scanned[i], materialInfo)
         /\ annotations' = scanAnnotations(Scanned[i], annotations)
         /\ cartesianPoints' = scanPoints(Scanned[i], cartesianPoints)
         /\ boundingBox' = scanBoundingBox(Scanned[i], boundingBox)
         /\ circles' = scanCircles(Scanned[i], circles)
    /\ UNCHANGED <<stlHeader, pc, stepPromise, stepData, proc, response, db, call>>

\* rl.on('close'): the end of the stream; resolves the promise
OnClose ==
    /\ pc = "scanning"
    /\ \E dims \in closeDimensions(boundingBox, circles, productName) :
         stepData' = [productName |-> productName,
                      dimensions |-> dims,
                      material |-> inferMaterial(materialInfo, fileContent),
                      annotations |-> annotations,
                      boundingBox |-> boundingBox,
                      cartesianPoints |-> cartesianPoints,
                      circles |-> circles]
    /\ stepPromise' = "resolved"
    /\ pc' = "stepResolved"
    /\ UNCHANGED <<stlHeader, scanVars, proc, response, db, call>>

\* rl.on('error'): a read failure of the stream; rejects the promise
OnError ==
    /\ pc = "scanning"
    /\ stepPromise' = "rejected"
    /\ pc' = "stepRejected"
    /\ UNCHANGED <<stlHeader, scanVars, stepData, proc, response, db, call>>

\* processFile after await parseStepFile(...) resolved, to the call of
\* calculateWeight (an object and a string are truthy: stepData, its
\* material and its annotations are always taken)
StepResolved ==
    /\ pc = "stepResolved"
    /\ proc' = [proc EXCEPT !.dimensions = stepData.dimensions,
                            !.material = stepData.material,
                            !.annotations = stepData.annotations,
                            !.volume = volumeOf(stepData.dimensions)]
    /\ stepData' = NoStepData
    /\ scanReset
    /\ pc' = "calculateWeight"
    /\ UNCHANGED <<stlHeader, stepPromise, response, db, call>>

\* a processFile without the catch: the rejection of parseStepFile becomes
\* the rejection of processFile
StepRejected_propagates ==
    /\ pc = "stepRejected"
    /\ proc' = [proc EXCEPT !.error = "Error reading STEP file"]
    /\ scanReset
    /\ pc' = "rejected"
    /\ UNCHANGED <<stlHeader, stepPromise, stepData, response, db, call>>

\* processFile's catch after await parseStepFile(...) rejected:
\* default dimensions for STEP files if an error occurs
StepRejected ==
    /\ pc = "stepRejected"
    /\ proc' = [proc EXCEPT !.dimensions = Dimensions(30, 20, 5),
                            !.volume = volumeOf(Dimensions(30, 20, 5))]
    /\ scanReset
    /\ pc' = "calculateWeight"
    /\ UNCHANGED <<stlHeader, stepPromise, stepData, response, db, call>>

\* await calculateWeight(material, volume)
CalculateWeight ==
    /\ pc = "calculateWeight"
    /\ LET r == calculateWeight(db, proc.material, proc.volume)
       IN  IF r.ok
           THEN proc' = [proc EXCEPT !.weight = r.value] /\ pc' = "calculateCost"
           ELSE proc' = [proc EXCEPT !.error = r.error] /\ pc' = "rejected"
    /\ UNCHANGED <<stlHeader, scanVars, stepPromise, stepData, response, db, call>>

\* await calculateCost(material, weight)
CalculateCost ==
    /\ pc = "calculateCost"
    /\ LET r == calculateCost(db, proc.material, proc.weight)
       IN  IF r.ok
           THEN proc' = [proc EXCEPT !.cost = r.value] /\ pc' = "findAlternatives"
           ELSE proc' = [proc EXCEPT !.error = r.error] /\ pc' = "rejected"
    /\ UNCHANGED <<stlHeader, scanVars, stepPromise, stepData, response, db, call>>

\* a findAlternatives that rejects when the material is not in the catalog
FindAlternatives_rejectsUnknown ==
    /\ pc = "findAlternatives"
    /\ IF rowsNamed(db, proc.material) = <<>>
       THEN proc' = [proc EXCEPT !.error = "Material not found"] /\ pc' = "rejected"
       ELSE /\ proc' = [proc EXCEPT !.alternatives =
                                      findAlternatives(db, proc.material,
                                                       proc.dimensions)]
            /\ pc' = "resolved"
    /\ UNCHANGED <<stlHeader, scanVars, stepPromise, stepData, response, db, call>>

\* await findAlternatives(material, dimensions), and processFile returns
FindAlternatives ==
    /\ pc = "findAlternatives"
    /\ proc' = [proc EXCEPT !.alternatives =
                              findAlternatives(db, proc.material, proc.dimensions)]
    /\ pc' = "resolved"
    /\ UNCHANGED <<stlHeader, scanVars, stepPromise, stepData, response, db, call>>

\* POST /upload, .then: the result is sent
SendResult ==
    /\ pc = "resolved"
    /\ response' = [status |-> 200,
                    dimensions |-> proc.dimensions,
                    volume |-> proc.volume,
                    material |-> proc.material,
                    weight |-> proc.weight,
                    cost |-> proc.cost,
                    alternatives |-> proc.alternatives,
                    annotations |-> proc.annotations,
                    tolerances |-> proc.tolerances]
    /\ pc' = "responded"
    /\ UNCHANGED <<stlHeader, scanVars, stepPromise, stepData, proc, db, call>>

\* POST /upload, .catch: processFile rejected
SendError ==
    /\ pc = "rejected"
    /\ response' = [status |-> 500, error |-> proc.error]
    /\ pc' = "responded"
    /\ UNCHANGED <<stlHeader, scanVars, stepPromise, stepData, proc, db, call>>

Next ==
    \/ ProcessStl
    \/ ProcessDrawing
    \/ ProcessStep
    \/ OnLine
    \/ OnClose
    \/ OnError
    \/ StepResolved
    \/ StepRejected
    \/ CalculateWeight
    \/ CalculateCost
    \/ FindAlternatives
    \/ SendResult
    \/ SendError

Spec == Init /\ [][Next]_vars

(***************************************************************************)
(* Single calls of the recommender's pure functions, on arguments drawn    *)
(* from bounded sets                                                       *)
(***************************************************************************)
\* cells of a numeric column
ScoreValues == {Null, Num(0), Num(-100), Num(100), Num(300)}

\* cells of the corrosion_resistance column (SQLite stores what it is given)
CorrosionValues == {Null, Str(Low), Str(toLowerCase(Low)), Str(Medium), Num(2)}

\* material records: the category, the tensile strength and the corrosion
\* resistance vary; the six other scored properties are all NULL or all 50
ScoreRecords ==
    {Row(1, AISI_1018_Steel, cat, Num(1), Num(1), ts, rest, rest, rest, rest, cr,
         rest, rest) :
       cat \in {Steel, Aluminum}, ts \in ScoreValues, cr \in CorrosionValues,
       rest \in {Null, Num(50)}}

\* the dimensions handed to compareMaterials
CompareDimensions ==
    {[length |-> l, width |-> w, height |-> h] :
       l \in {Num(0), Num(2), Num(30), Num(100)},
       w \in {Num(0), Num(2), Num(30), Num(100)},
       h \in {Num(0), Num(2), Num(30), Num(100)}}

SeedRows == {SeedTable[i] : i \in 1..Len(SeedTable)}

\* the records handed to compareMaterials: the seeded rows and a row whose
\* density, cost_per_kg and tensile_strength are 0
CompareRows ==
    SeedRows \cup {Row(20, Titanium, Titanium, Num(0), Num(0), Num(0), Null, Null,
                       Null, Null, Null, Null, Null)}

Call(fn, original, alternative, dimensions) ==
    [fn |-> fn, original |-> original, alternative |-> alternative,
     dimensions |-> dimensions, done |-> FALSE, threw |-> FALSE, result |-> Null]

InitScore ==
    /\ BaseInit
    /\ call \in {Call("calculateSimilarityScore", o, a, Dimensions(0, 0, 0)) :
                   o \in ScoreRecords, a \in ScoreRecords}

\* calculateSimilarityScore(original, alternative) returns
ApplyScore ==
    /\ call.fn = "calculateSimilarityScore"
    /\ ~call.done
    /\ call' = [call EXCEPT !.done = TRUE,
                            !.result = calculateSimilarityScore(call.original,
                                                                call.alternative)]
    /\ UNCHANGED <<pc, stlHeader, scanVars, stepPromise, stepData, proc, response, db>>

SpecScore == InitScore /\ [][ApplyScore]_vars

InitCompare ==
    /\ BaseInit
    /\ call \in {Call("compareMaterials", o, a, d) :
                   o \in CompareRows, a \in CompareRows, d \in CompareDimensions}

\* compareMaterials(original, alternative, dimensions) returns; the function
\* has no throw and no rejection
ApplyCompare ==
    /\ call.fn = "compareMaterials"
    /\ ~call.done
    /\ call' = [call EXCEPT !.done = TRUE,
                            !.result = compareMaterials(call.original,
                                                        call.alternative,
                                                        call.dimensions)]
    /\ UNCHANGED <<pc, stlHeader, scanVars, stepPromise, stepData, proc, response, db>>

SpecCompare == InitCompare /\ [][ApplyCompare]_vars

\* the most rows a catalog of single calls of findAlternatives has
MaxRows == 7

\* the name of the i-th material of such a catalog
MaterialName(i) == <<"M", DigitChars[i + 1]>>

\* its i-th row: id i, categories alternating, tensile_strength ts and the
\* other scored properties NULL
CatalogRow(i, ts) ==
    Row(i, MaterialName(i), IF i % 2 = 1 THEN Steel ELSE Aluminum, Num(i), Num(1),
        ts, Null, Null, Null, Null, Null, Null, Null)

\* catalogs of 1, 4 and MaxRows rows in the order of their ids; the first row
\* has tensile_strength 100, the others NULL, 50 or 100
AlternativeCatalogs ==
    UNION {{[i \in 1..n |-> CatalogRow(i, IF i = 1 THEN Num(100) ELSE f[i])] :
              f \in [2..n -> {Null, Num(50), Num(100)}]} :
            n \in {1, 4, MaxRows}}

\* the catalog is any of AlternativeCatalogs, the material name that of a row
\* or the name M0 no row has
InitAlternatives ==
    /\ pc = "idle"
    /\ stlHeader = NoHeader
    /\ fileContent = <<>>
    /\ productName = <<>>
    /\ materialInfo = <<>>
    /\ boundingBox = emptyBoundingBox
    /\ cartesianPoints = <<>>
    /\ annotations = <<>>
    /\ circles = <<>>
    /\ stepPromise = "none"
    /\ stepData = NoStepData
    /\ proc = procDefaults
    /\ response = NoResponse
    /\ db \in AlternativeCatalogs
    /\ call \in {[fn |-> "findAlternatives", materialName |-> MaterialName(i),
                  dimensions |-> Dimensions(2, 2, 2), done |-> FALSE,
                  threw |-> FALSE, result |-> <<>>] : i \in 0..MaxRows}

\* the promise of findAlternatives(materialName, dimensions) settles; without
\* an error of the database it resolves
ApplyAlternatives ==
    /\ call.fn = "findAlternatives"
    /\ ~call.done
    /\ call' = [call EXCEPT !.done = TRUE,
                            !.result = findAlternatives(db, call.materialName,
                                                        call.dimensions)]
    /\ UNCHANGED <<pc, stlHeader, scanVars, stepPromise, stepData, proc, response, db>>

SpecAlternatives == InitAlternatives /\ [][ApplyAlternatives]_vars

(***************************************************************************)
(* POST /recalculate: requests served one after the other                  *)
(***************************************************************************)
\* the most requests served
MaxRequests == 2

\* req.body.material: missing, a seeded name, or a name no row has
RecalcMaterials == {<<>>, AISI_1018_Steel, MaterialName(0)}

\* req.body.volume as text: '', 'abc', '0', '-5', '1000', '2.5', '12abc'
RecalcVolumes ==
    {<<>>, <<"a", "b", "c">>, <<"0">>, <<"-", "5">>, <<"1", "0", "0", "0">>,
     <<"2", ".", "5">>, <<"1", "2", "a", "b", "c">>}

\* no request in flight; the requests served, those of them rejected for
\* their volume, and the catalog lookups made so far
NoRequest ==
    [fn |-> "recalculate", stage |-> "idle", material |-> <<>>, volume |-> <<>>,
     volumeNum |-> NaN, weight |-> Null, served |-> 0, invalidVolumes |-> 0, lookups |-> 0]

InitRecalculate == BaseInit /\ call = NoRequest

\* a handler that hands every volume to calculateWeight
RecalculateRequest_unvalidated ==
    /\ call.fn = "recalculate"
    /\ call.stage = "idle"
    /\ call.served < MaxRequests
    /\ \E material \in RecalcMaterials, volume \in RecalcVolumes :
         IF material = <<>>
         THEN /\ response' = [status |-> 400, error |-> "Material is required"]
              /\ call' = [call EXCEPT !.material = material, !.volume = volume,
                                      !.volumeNum = parseFloat(volume),
                                      !.served = @ + 1]
         ELSE /\ response' = NoResponse
              /\ call' = [call EXCEPT !.stage = "calculateWeight",
                                      !.material = material, !.volume = volume,
                                      !.volumeNum = parseFloat(volume)]
    /\ UNCHANGED <<pc, stlHeader, scanVars, stepPromise, stepData, proc, db>>

\* app.post('/recalculate'), to the call of calculateWeight
RecalculateRequest ==
    /\ call.fn = "recalculate"
    /\ call.stage = "idle"
    /\ call.served < MaxRequests
    /\ \E material \in RecalcMaterials, volume \in RecalcVolumes :
         LET volumeNum == parseFloat(volume)
         IN  IF material = <<>>
             THEN /\ response' = [status |-> 400, error |-> "Material is required"]
                  /\ call' = [call EXCEPT !.material = material, !.volume = volume,
                                          !.volumeNum = volumeNum,
                                          !.served = @ + 1]
             ELSE IF IsNaN(volumeNum) \/ JsLe(volumeNum, Num(0))
             THEN /\ response' = [status |-> 400,
                                  error |-> "Volume must be a positive number"]
                  /\ call' = [call EXCEPT !.material = material, !.volume = volume,
                                          !.volumeNum = volumeNum,
                                          !.served = @ + 1, !.invalidVolumes = @ + 1]
             ELSE /\ response' = NoResponse
                  /\ call' = [call EXCEPT !.stage = "calculateWeight",
                                          !.material = material, !.volume = volume,
                                          !.volumeNum = volumeNum]
    /\ UNCHANGED <<pc, stlHeader, scanVars, stepPromise, stepData, proc, db>>

\* calculateWeight(material, volumeNum) settles: db.get is reached only
\* behind the checks of the volume
RecalculateWeight ==
    /\ call.fn = "recalculate"
    /\ call.stage = "calculateWeight"
    /\ LET r == calculateWeight(db, call.material, call.volumeNum)
           looked == ~IsNaN(call.volumeNum) /\ JsGt(call.volumeNum, Num(0))
       IN  IF r.ok
           THEN /\ call' = [call EXCEPT !.stage = "calculateCost", !.weight = r.value,
                                        !.lookups = @ + 1]
                /\ UNCHANGED response
           ELSE /\ call' = [call EXCEPT !.stage = "idle", !.served = @ + 1,
                                        !.lookups = IF looked THEN @ + 1 ELSE @]
                /\ response' = [status |-> 500, error |-> r.error]
    /\ UNCHANGED <<pc, stlHeader, scanVars, stepPromise, stepData, proc, db>>

\* calculateCost(material, weight) settles and the answer is sent
RecalculateCost ==
    /\ call.fn = "recalculate"
    /\ call.stage = "calculateCost"
    /\ LET r == calculateCost(db, call.material, call.weight)
           looked == ~IsNaN(call.weight) /\ JsGt(call.weight, Num(0))
       IN  /\ call' = [call EXCEPT !.stage = "idle", !.served = @ + 1,
                                   !.lookups = IF looked THEN @ + 1 ELSE @]
           /\ response' = IF r.ok
                          THEN [status |-> 200, weight |-> call.weight,
                                cost |-> r.value]
                          ELSE [status |-> 500, error |-> r.error]
    /\ UNCHANGED <<pc, stlHeader, scanVars, stepPromise, stepData, proc, db>>

NextRecalculate == RecalculateRequest \/ RecalculateWeight \/ RecalculateCost

SpecRecalculate == InitRecalculate /\ [][NextRecalculate]_vars

(***************************************************************************)
(* Two calls of parseStepFile whose 'line' and 'close' events interleave   *)
(***************************************************************************)
\* Longest input stream of each of the two calls, in lines
MaxLinesEach == 2

\* the lines the two streams are made of: a product with a circle, a
\* point and a note
ConcurrentLines ==
    {i \in 1..Len(Lines) :
       Lines[i] \in {Line_washer_entities, Line_point_a, Line_note}}

Streams ==
    UNION {[1..n -> ConcurrentLines] : n \in 0..MaxLinesEach}

\* let fileContent = ''; let productName = ''; ... const circles = []
newLocals ==
    [read |-> 0,
     fileContent |-> <<>>,
     productName |-> <<>>,
     materialInfo |-> <<>>,
     boundingBox |-> emptyBoundingBox,
     cartesianPoints |-> <<>>,
     annotations |-> <<>>,
     circles |-> <<>>,
     closed |-> FALSE,
     stepData |-> NoStepData]

\* rl.on('line') on the locals of one call
lineHandler(loc, i) ==
    [loc EXCEPT
       !.read = loc.read + 1,
       !.fileContent = loc.fileContent \o Lines[i] \o <<"\n">>,
       !.productName = scanProductName(Scanned[i], loc.productName),
       !.materialInfo = scanMaterialInfo(Scanned[i], loc.materialInfo),
       !.annotations = scanAnnotations(Scanned[i], loc.annotations),
       !.cartesianPoints = scanPoints(Scanned[i], loc.cartesianPoints),
       !.boundingBox = scanBoundingBox(Scanned[i], loc.boundingBox),
       !.circles = scanCircles(Scanned[i], loc.circles)]

\* rl.on('close') on the locals of one call: the values it may resolve with
closeResults(loc) ==
    {[productName |-> loc.productName,
      dimensions |-> dims,
      material |-> inferMaterial(loc.materialInfo, loc.fileContent),
      annotations |-> loc.annotations,
      boundingBox |-> loc.boundingBox,
      cartesianPoints |-> loc.cartesianPoints,
      circles |-> loc.circles] :
       dims \in closeDimensions(loc.boundingBox, loc.circles, loc.productName)}

\* locals kept outside the function: every call works on those of the first
localsOf_shared(ex, e) == ex[1]

\* the locals are created by the call (const/let inside parseStepFile), and
\* the handlers of a call are closures over its own locals
localsOf(ex, e) == ex[e]

NoExtractions ==
    [fn |-> "parseStepFile",
     streams |-> <<<<>>, <<>>>>,
     ex |-> <<newLocals, newLocals>>,
     interleaved |-> FALSE]

InitConcurrent ==
    /\ BaseInit
    /\ \E s1 \in Streams, s2 \in Streams :
         call = [NoExtractions EXCEPT !.streams = <<s1, s2>>]

\* whether the other call is between its first event and its close
running(c, e) == c.ex[e].read > 0 /\ ~c.ex[e].closed

\* a 'line' event of one of the two calls
ConcurrentLine ==
    /\ call.fn = "parseStepFile"
    /\ \E e \in 1..2 :
         /\ ~call.ex[e].closed
         /\ call.ex[e].read < Len(call.streams[e])
         /\ call' = [call EXCEPT
                       !.ex[e] = [lineHandler(localsOf(call.ex, e),
                                              call.streams[e][call.ex[e].read + 1])
                                    EXCEPT !.read = call.ex[e].read + 1],
                       !.interleaved = call.interleaved \/ running(call, 3 - e)]
    /\ UNCHANGED <<pc, stlHeader, scanVars, stepPromise, stepData, proc, response, db>>

\* the 'close' event of one of the two calls
ConcurrentClose ==
    /\ call.fn = "parseStepFile"
    /\ \E e \in 1..2 :
         /\ ~call.ex[e].closed
         /\ call.ex[e].read = Len(call.streams[e])
         /\ \E data \in closeResults(localsOf(call.ex, e)) :
              call' = [call EXCEPT
                         !.ex[e] = [localsOf(call.ex, e) EXCEPT
                                      !.read = call.ex[e].read,
                                      !.closed = TRUE,
                                      !.stepData = data],
                         !.interleaved = call.interleaved \/ running(call, 3 - e)]
    /\ UNCHANGED <<pc, stlHeader, scanVars, stepPromise, stepData, proc, response, db>>

NextConcurrent == ConcurrentLine \/ ConcurrentClose

SpecConcurrent == InitConcurrent /\ [][NextConcurrent]_vars

(***************************************************************************)
(* The Vue component of public/js/app.js with its requests in flight       *)
(***************************************************************************)
\* Most requests the component sends: uploads, loads of a project and
\* /recalculate requests together
MaxFetches == 3

\* the materials of the comparison cards and of the material list
AppMaterials == {AISI_1018_Steel, Aluminum_6061_T6}

\* values typed into the volume field
AppVolumes == {Num(1000), Num(2000)}

ZeroDimensions == Dimensions(0, 0, 0)

\* parseFloat(x) || 0 on a value of a JSON body
numberOrZero(v) == IF IsNumber(v) /\ Truthy(v) THEN v ELSE Num(0)

\* the body of a successful answer of POST /upload for a part of the given
\* dimensions (the fields the component reads)
uploadBody(table, dimensions) ==
    LET weight == calculateWeight(table, AISI_1018_Steel, volumeOf(dimensions)).value
    IN  [dimensions |-> dimensions,
         volume |-> volumeOf(dimensions),
         material |-> AISI_1018_Steel,
         weight |-> weight,
         cost |-> calculateCost(table, AISI_1018_Steel, weight).value]

UploadBodies == {uploadBody(SeedTable, Dimensions(10, 10, 10))}

\* the answer of POST /recalculate to { material, volume } with a volume
\* that is a positive number
recalculateAnswer(table, material, volume) ==
    LET weight == calculateWeight(table, material, volume)
        cost == calculateCost(table, material, weight.value)
    IN  IF ~weight.ok THEN [status |-> 500, error |-> weight.error]
        ELSE IF ~cost.ok THEN [status |-> 500, error |-> cost.error]
        ELSE [status |-> 200, weight |-> weight.value, cost |-> cost.value]

\* data(): the component as created, with its requests in flight, the
\* uploads and loads started, the requests sent and the last of them,
\* whether the analysis was reset since the last upload or load was
\* started, and the last method run
NoAnalysis ==
    [fn |-> "app",
     selectedFile |-> FALSE,
     isAnalyzing |-> FALSE,
     analysisResult |-> Null,
     selectedMaterial |-> <<>>,
     dimensions |-> ZeroDimensions,
     volume |-> Num(0),
     weight |-> Num(0),
     cost |-> Num(0),
     showErrorModal |-> FALSE,
     errorMessage |-> "",
     uploads |-> 0,
     loads |-> 0,
     recalcs |-> {},
     started |-> 0,
     sent |-> 0,
     requested |-> Null,
     cleared |-> FALSE,
     op |-> "data"]

InitApp == BaseInit /\ call = NoAnalysis

appUnchanged ==
    UNCHANGED <<pc, stlHeader, scanVars, stepPromise, stepData, proc, response, db>>

showError(c, message) ==
    [c EXCEPT !.errorMessage = message, !.showErrorModal = TRUE]

\* handleFileUpload: a file is chosen
HandleFileUpload ==
    /\ call.fn = "app"
    /\ call' = [call EXCEPT !.selectedFile = TRUE, !.op = "handleFileUpload"]
    /\ appUnchanged

\* uploadFile, to the call of fetch
UploadFile ==
    /\ call.fn = "app"
    /\ IF ~call.selectedFile
       THEN call' = [showError(call, "Veuillez selectionner un fichier")
                       EXCEPT !.op = "uploadFile"]
       ELSE /\ call.started + call.sent < MaxFetches
            /\ call' = [call EXCEPT !.isAnalyzing = TRUE,
                                    !.uploads = @ + 1,
                                    !.started = @ + 1,
                                    !.cleared = FALSE,
                                    !.op = "uploadFile"]
    /\ appUnchanged

\* processAnalysisResult(data)
processAnalysisResult(c, data) ==
    [c EXCEPT !.analysisResult = data,
              !.dimensions = [length |-> numberOrZero(data.dimensions.length),
                              width |-> numberOrZero(data.dimensions.width),
                              height |-> numberOrZero(data.dimensions.height)],
              !.volume = numberOrZero(data.volume),
              !.weight = numberOrZero(data.weight),
              !.cost = numberOrZero(data.cost),
              !.selectedMaterial = IF data.material # <<>> THEN data.material
                                   ELSE AISI_1018_Steel]

\* the ways the fetch of uploadFile settles: an OK answer with its body, an
\* answer that is not OK, a failure of the request
UploadOutcomes ==
    {[kind |-> "ok", data |-> d] : d \in UploadBodies}
      \cup {[kind |-> "notOk"], [kind |-> "failed"]}

\* the then/catch chain of uploadFile
uploadSettled(c, outcome) ==
    IF outcome.kind = "ok" THEN processAnalysisResult(c, outcome.data)
    ELSE IF outcome.kind = "notOk"
         THEN showError(c, "Erreur: Erreur lors du telechargement du fichier")
    ELSE showError(c, "Erreur: Failed to fetch")

\* a chain of uploadFile without its finally
UploadResponse_noFinally ==
    /\ call.fn = "app"
    /\ call.uploads > 0
    /\ \E outcome \in UploadOutcomes :
         call' = [uploadSettled(call, outcome) EXCEPT !.uploads = @ - 1,
                                                      !.op = "uploadFile.then"]
    /\ appUnchanged

\* the fetch of an uploadFile settles: then, catch, finally
UploadResponse ==
    /\ call.fn = "app"
    /\ call.uploads > 0
    /\ \E outcome \in UploadOutcomes :
         call' = [uploadSettled(call, outcome) EXCEPT !.isAnalyzing = FALSE,
                                                      !.uploads = @ - 1,
                                                      !.op = "uploadFile.then"]
    /\ appUnchanged

\* resetAnalysis
ResetAnalysis ==
    /\ call.fn = "app"
    /\ call' = [call EXCEPT !.analysisResult = Null,
                            !.selectedFile = FALSE,
                            !.dimensions = ZeroDimensions,
                            !.volume = Num(0),
                            !.weight = Num(0),
                            !.cost = Num(0),
                            !.cleared = TRUE,
                            !.op = "resetAnalysis"]
    /\ appUnchanged

\* recalculateWeight, to the call of fetch
recalculateWeight(c) ==
    IF c.selectedMaterial = <<>>
    THEN showError(c, "Veuillez selectionner un materiau")
    ELSE IF IsNaN(c.volume) \/ JsLe(c.volume, Num(0))
    THEN showError(c, "Le volume doit etre un nombre positif")
    ELSE [c EXCEPT !.recalcs = @ \cup {[material |-> c.selectedMaterial,
                                        volume |-> c.volume]},
                   !.sent = @ + 1,
                   !.requested = [material |-> c.selectedMaterial,
                                  volume |-> c.volume]]

\* selectAlternative(materialName)
SelectAlternative ==
    /\ call.fn = "app"
    /\ call.started + call.sent < MaxFetches
    /\ \E materialName \in AppMaterials :
         call' = [recalculateWeight([call EXCEPT !.selectedMaterial = materialName])
                    EXCEPT !.op = "selectAlternative"]
    /\ appUnchanged

\* the volume field: v-model.number="volume" @change="recalculateWeight"
ChangeVolume ==
    /\ call.fn = "app"
    /\ call.started + call.sent < MaxFetches
    /\ call.analysisResult # Null
    /\ \E v \in AppVolumes :
         call' = [recalculateWeight([call EXCEPT !.volume = v])
                    EXCEPT !.op = "recalculateWeight"]
    /\ appUnchanged

\* the then/catch chain of recalculateWeight
recalcSettled(c, request, answer) ==
    IF answer.status # 200
    THEN showError(c, "Erreur lors du recalcul")
    ELSE [c EXCEPT !.weight = numberOrZero(answer.weight),
                   !.cost = numberOrZero(answer.cost)]

\* the answer to one of the /recalculate requests in flight arrives
RecalculateResponse ==
    /\ call.fn = "app"
    /\ \E request \in call.recalcs :
         call' = [recalcSettled(call, request,
                                recalculateAnswer(db, request.material, request.volume))
                    EXCEPT !.recalcs = @ \ {request},
                           !.op = "recalculateWeight.then"]
    /\ appUnchanged

\* the project a load answers with: an analysis saved with its values
SavedProject ==
    LET body == uploadBody(SeedTable, Dimensions(30, 20, 5))
    IN  [analysisResult |-> body,
         selectedMaterial |-> body.material,
         dimensions |-> body.dimensions,
         volume |-> body.volume,
         weight |-> body.weight,
         cost |-> body.cost]

\* loadProject with an id entered, to the call of fetch
LoadProject ==
    /\ call.fn = "app"
    /\ call.started + call.sent < MaxFetches
    /\ call' = [call EXCEPT !.loads = @ + 1,
                            !.started = @ + 1,
                            !.cleared = FALSE,
                            !.op = "loadProject"]
    /\ appUnchanged

\* the fetch of a loadProject settles: the project, or 'Projet non trouve'
LoadResponse ==
    /\ call.fn = "app"
    /\ call.loads > 0
    /\ \E found \in BOOLEAN :
         call' = [(IF found
                   THEN [call EXCEPT
                           !.analysisResult = SavedProject.analysisResult,
                           !.selectedMaterial = SavedProject.selectedMaterial,
                           !.dimensions =
                              [length |-> numberOrZero(SavedProject.dimensions.length),
                               width |-> numberOrZero(SavedProject.dimensions.width),
                               height |-> numberOrZero(SavedProject.dimensions.height)],
                           !.volume = numberOrZero(SavedProject.volume),
                           !.weight = numberOrZero(SavedProject.weight),
                           !.cost = numberOrZero(SavedProject.cost)]
                   ELSE showError(call, "Erreur: Projet non trouve"))
                    EXCEPT !.loads = @ - 1, !.op = "loadProject.then"]
    /\ appUnchanged

NextApp ==
    \/ HandleFileUpload
    \/ UploadFile
    \/ UploadResponse
    \/ ResetAnalysis
    \/ SelectAlternative
    \/ ChangeVolume
    \/ RecalculateResponse
    \/ LoadProject
    \/ LoadResponse

SpecApp == InitApp /\ [][NextApp]_vars

\* every fetch settles: the server answers each request, and a request
\* that cannot be answered fails
SpecAppLive == SpecApp /\ WF_vars(UploadResponse)

(***************************************************************************)
(* /save_project and /load_project over the files of the projects folder   *)
(***************************************************************************)
\* Most projects saved
MaxProjects == 2

\* the ids uuidv4 draws from and a client may ask for
ProjectIds == 1..(MaxProjects + 1)

null_text == <<"n", "u", "l", "l">>

\* the text before and after the value of {"volume":...}
volume_open == <<"{", "\"", "v", "o", "l", "u", "m", "e", "\"", ":">>

volume_close == <<"}">>

\* the decimal digits of a natural number
RECURSIVE natText(_)
natText(n) ==
    IF n < 10 THEN <<DigitChars[n + 1]>>
    ELSE natText(n \div 10) \o <<DigitChars[(n % 10) + 1]>>

\* Number::toString of a finite number that is not negative and has at
\* most two decimals
numberText(v) ==
    IF v.d = 1 THEN natText(v.n)
    ELSE LET hundredths == ((v.n % v.d) * 100) \div v.d
             decimals == IF hundredths % 10 = 0
                         THEN <<DigitChars[(hundredths \div 10) + 1]>>
                         ELSE <<DigitChars[(hundredths \div 10) + 1],
                                DigitChars[(hundredths % 10) + 1]>>
         IN  natText(v.n \div v.d) \o <<".">> \o decimals

\* JSON.stringify of a number or null: NaN and the infinities become null
stringifyValue(v) ==
    IF IsNumber(v) /\ IsFinite(v) THEN numberText(v) ELSE null_text

\* JSON.stringify of the object { volume: v }
JSON_stringify(data) == volume_open \o stringifyValue(data.volume) \o volume_close

\* a JSON number: digits with an optional fraction and an optional
\* exponent; a value beyond the doubles (a decimal exponent above 308) is
\* Infinity
jsonNumber(token) ==
    LET e == IndexFrom(token, "e", 1)
        digits == IF e = 0 THEN token ELSE substring(token, 1, e - 1)
        dot == IndexFrom(digits, ".", 1)
        whole == IF dot = 0 THEN digits ELSE substring(digits, 1, dot - 1)
        fraction == IF dot = 0 THEN <<>> ELSE substring(digits, dot + 1, Len(digits))
        mantissa == Fin(DigitsValue(whole) * Pow10(Len(fraction)) + DigitsValue(fraction),
                        Pow10(Len(fraction)))
        exponent == IF e = 0 THEN 0 ELSE DigitsValue(substring(token, e + 1, Len(token)))
    IN  IF exponent = 0 \/ mantissa.n = 0 THEN mantissa
        ELSE IF exponent > 308 THEN PosInf
        ELSE JsMul(mantissa, Num(Pow10(exponent)))

\* JSON.parse of the text of an object { volume: ... }
JSON_parse(text) ==
    LET token == substring(text, Len(volume_open) + 1, Len(text) - 1)
    IN  [volume |-> IF token = null_text THEN Null ELSE jsonNumber(token)]

\* bodies a client posts: {"volume":0}, {"volume":12}, {"volume":2.5},
\* {"volume":1e2}, {"volume":1e999}, {"volume":null}
ProjectTexts ==
    {volume_open \o t \o volume_close :
       t \in {<<"0">>, <<"1", "2">>, <<"2", ".", "5">>, <<"1", "e", "2">>,
              <<"1", "e", "9", "9", "9">>, null_text}}

\* no file in the projects folder; the ids answered by /save_project with
\* the body saved under each
NoProjects ==
    [fn |-> "projects",
     files |-> [id \in ProjectIds |-> <<>>],
     receipts |-> {},
     asked |-> 0]

InitProjects == BaseInit /\ call = NoProjects

\* uuidv4(): an id not drawn before
uuidv4(files) == {id \in ProjectIds : files[id] = <<>>}

\* app.post('/save_project') with fs.writeFile succeeding or failing
save_project ==
    /\ call.fn = "projects"
    /\ Cardinality(call.receipts) < MaxProjects
    /\ \E text \in ProjectTexts, projectId \in uuidv4(call.files), written \in BOOLEAN :
         LET projectData == JSON_parse(text)
         IN  IF written
             THEN /\ call' = [call EXCEPT
                                !.files[projectId] = JSON_stringify(projectData),
                                !.receipts = @ \cup {[project_id |-> projectId,
                                                      projectData |-> projectData]},
                                !.asked = 0]
                  /\ response' = [status |-> 200, project_id |-> projectId]
             ELSE /\ call' = [call EXCEPT !.asked = 0]
                  /\ response' = [status |-> 500, error |-> "Failed to save project"]
    /\ UNCHANGED <<pc, stlHeader, scanVars, stepPromise, stepData, proc, db>>

\* app.get('/load_project/:project_id')
load_project ==
    /\ call.fn = "projects"
    /\ \E projectId \in ProjectIds :
         /\ call' = [call EXCEPT !.asked = projectId]
         /\ response' =
              IF call.files[projectId] = <<>>
              THEN [status |-> 404, error |-> "Project not found"]
              ELSE [status |-> 200,
                    projectData |-> JSON_parse(call.files[projectId])]
    /\ UNCHANGED <<pc, stlHeader, scanVars, stepPromise, stepData, proc, db>>

NextProjects == save_project \/ load_project

SpecProjects == InitProjects /\ [][NextProjects]_vars

(***************************************************************************)
(* Properties                                                              *)
(***************************************************************************)
\* C1: the dimensions parseStepFile resolves with satisfy
\* length >= width >= height, also when the washer override was applied
C1_DimensionsDescending ==
    pc = "stepResolved" =>
      /\ JsGe(stepData.dimensions.length, stepData.dimensions.width)
      /\ JsGe(stepData.dimensions.width, stepData.dimensions.height)

\* C2: with at least one circle radius, a product name whose lower case
\* contains 'rondelle' and a bounding box with points, the dimensions are
\* length = width = 2 * the largest radius and height = the smallest sorted
\* extent of the bounding box, whatever the product name is otherwise
C2_WasherOverride ==
    (/\ pc = "stepResolved"
     /\ Len(circles) > 0
     /\ includes(toLowerCase(productName), rondelle)
     /\ foundValidPoints(boundingBox))
    => /\ stepData.dimensions.length = JsMul(Num(2), MathMaxOf(circles))
       /\ stepData.dimensions.width = JsMul(Num(2), MathMaxOf(circles))
       /\ \E d \in sortDescending(extents(boundingBox)) :
            stepData.dimensions.height = d[3]

\* the values of a coords array that are numbers other than NaN
numericValues(coords) == {k \in 1..Len(coords) : ~IsNaN(coords[k])}

\* C3: a CARTESIAN_POINT line whose parenthesised list gives fewer than 3
\* numeric values leaves the bounding box and the point list as they were
C3_MalformedPointSkipped ==
    [][\A i \in 1..Len(Lines) :
         (/\ pc = "scanning"
          /\ fileContent' = fileContent \o Lines[i] \o <<"\n">>
          /\ includes(Lines[i], CARTESIAN_POINT)
          /\ Cardinality(numericValues(Scanned[i].coords)) < 3)
         => /\ boundingBox' = boundingBox
            /\ cartesianPoints' = cartesianPoints]_vars

\* C4: every axis of the bounding box is unset (min = +Infinity,
\* max = -Infinity, no point accepted) or has min <= max, min and max being
\* the least and the greatest coordinate of the accepted points on that axis
C4_BoundingBoxBounds ==
    \A i \in 1..3 :
      \/ /\ cartesianPoints = <<>>
         /\ boundingBox.min[i] = PosInf
         /\ boundingBox.max[i] = NegInf
      \/ /\ cartesianPoints # <<>>
         /\ JsLe(boundingBox.min[i], boundingBox.max[i])
         /\ \A k \in 1..Len(cartesianPoints) :
              /\ JsLe(boundingBox.min[i], cartesianPoints[k][i])
              /\ JsGe(boundingBox.max[i], cartesianPoints[k][i])
         /\ \E k \in 1..Len(cartesianPoints) :
              boundingBox.min[i] = cartesianPoints[k][i]
         /\ \E k \in 1..Len(cartesianPoints) :
              boundingBox.max[i] = cartesianPoints[k][i]

\* C5: when no point line updated the bounding box, parseStepFile resolves
\* with the dimensions (30, 30, 5), whatever else the lines held
C5_NoPointsDefault ==
    (pc = "stepResolved" /\ boundingBox = emptyBoundingBox)
    => stepData.dimensions = Dimensions(30, 30, 5)

\* a scan without points that saw a washer PRODUCT, a circle and a note
C5_Witness ==
    /\ pc = "stepResolved"
    /\ boundingBox = emptyBoundingBox
    /\ Len(circles) > 0
    /\ includes(toLowerCase(productName), rondelle)
    /\ annotations # <<>>
    /\ stepData.dimensions = Dimensions(30, 30, 5)

steel == <<"s", "t", "e", "e", "l">>

\* C7: without a material hint the material is the steel alloy when the
\* text holds 'steel' or 'acier', else the aluminum alloy when it holds
\* 'aluminum' or 'aluminium', else the titanium alloy when it holds
\* 'titanium' or 'titane', else the steel alloy
C7_MaterialPriority ==
    (pc = "stepResolved" /\ materialInfo = <<>>)
    => stepData.material =
         LET text == toLowerCase(fileContent)
         IN  IF includes(text, steel) \/ includes(text, acier)
             THEN AISI_1018_Steel
             ELSE IF includes(text, aluminum) \/ includes(text, aluminium)
                  THEN Aluminum_6061_T6
             ELSE IF includes(text, titanium) \/ includes(text, titane)
                  THEN Ti_6Al_4V
             ELSE AISI_1018_Steel

\* C8: compareMaterials called with a dimension equal to 0 is rejected
C8_ZeroVolumeRejected ==
    (/\ call.fn = "compareMaterials"
     /\ call.done
     /\ \/ call.dimensions.length = Num(0)
        \/ call.dimensions.width = Num(0)
        \/ call.dimensions.height = Num(0))
    => call.threw

\* C9: when parseStepFile rejects, processFile does not resolve and no
\* result is sent
C9_ReadFailureReported ==
    stepPromise = "rejected" => (pc # "resolved" /\ response.status # 200)

\* C9, as the code has it: when parseStepFile rejects, processFile catches
\* the error, goes on with the dimensions (30, 20, 5), the volume 3000 and
\* the default material and annotations, does not reject with the seeded
\* catalog, and the answer sent is a result
C9_ReadFailureSubstituted ==
    (stepPromise = "rejected" /\ pc # "stepRejected")
    => /\ proc.dimensions = Dimensions(30, 20, 5)
       /\ proc.volume = Num(3000)
       /\ proc.material = procDefaults.material
       /\ proc.annotations = procDefaults.annotations
       /\ pc # "rejected"
       /\ pc = "responded" =>
            /\ response.status = 200
            /\ response.dimensions = Dimensions(30, 20, 5)
            /\ response.volume = Num(3000)

\* the answer to a STEP file whose stream failed
C9_Witness ==
    /\ stepPromise = "rejected"
    /\ pc = "responded"
    /\ response.status = 200

\* C10: calculateSimilarityScore returns a value from 0 to 100
C10_ScoreInRange ==
    (call.fn = "calculateSimilarityScore" /\ call.done)
    => /\ JsGe(call.result, Num(0))
       /\ JsLe(call.result, Num(100))

\* a call whose loop and bonus add up to more than 100
C10_Witness ==
    /\ call.fn = "calculateSimilarityScore"
    /\ call.done
    /\ JsGt(JsAdd(propertySum(call.original, call.alternative, Len(properties)),
                  categoryBonus(call.original, call.alternative)),
            Num(100))
    /\ call.result = Num(100)

\* a call of calculateSimilarityScore has returned
scoreDone == call.fn = "calculateSimilarityScore" /\ call.done

\* the property is NULL on the original or on the candidate of the call
absentOn(prop) == IsNull(call.original[prop]) \/ IsNull(call.alternative[prop])

\* the property has the value v on both records of the call
bothHave(prop, v) == call.original[prop] = v /\ call.alternative[prop] = v

numericRest ==
    {"yield_strength", "elastic_modulus", "thermal_expansion",
     "thermal_conductivity", "machinability", "weldability"}

\* 10 when the categories of the call are equal, else 0
bonusOf ==
    IF call.original.category = call.alternative.category THEN Num(10) ELSE Num(0)

\* C11: a scored property that is NULL on either record adds nothing and the
\* divisor stays 56: with every property NULL on a side the score is the
\* bonus alone; with only tensile_strength (weight 10) NULL on a side and
\* the seven others equal it is 4600/56 + bonus, not 100; tensile_strength
\* 0 on both sides, the others NULL on a side, adds its full 1000/56
C11_NullExcluded ==
    scoreDone =>
      /\ (absentOn("tensile_strength") /\ absentOn("corrosion_resistance")
            /\ \A p \in numericRest : absentOn(p))
         => call.result = bonusOf
      /\ (/\ absentOn("tensile_strength")
          /\ \A p \in numericRest : bothHave(p, Num(50))
          /\ IsString(call.original.corrosion_resistance)
          /\ call.original.corrosion_resistance = call.alternative.corrosion_resistance)
         => call.result = JsAdd(Fin(4600, 56), bonusOf)
      /\ (/\ bothHave("tensile_strength", Num(0))
          /\ absentOn("corrosion_resistance")
          /\ \A p \in numericRest : absentOn(p))
         => call.result = JsAdd(Fin(1000, 56), bonusOf)

\* tensile_strength NULL on the original and 100 on the candidate, the seven
\* other properties equal on both
C11_Witness ==
    /\ scoreDone
    /\ IsNull(call.original.tensile_strength)
    /\ call.alternative.tensile_strength = Num(100)
    /\ \A p \in numericRest : bothHave(p, Num(50))
    /\ bothHave("corrosion_resistance", Str(Low))
    /\ call.original.category # call.alternative.category
    /\ call.result = Fin(4600, 56)

\* C12: a numeric property with equal non-zero values on both records has
\* the property score 100 and adds 100 * weight / 56: tensile_strength
\* alone adds 1000/56, and with the six other numeric properties equal to 50
\* on both records the sum is 4900/56
C12_EqualValuesFullWeight ==
    scoreDone =>
      \A v \in {Num(-100), Num(100), Num(300)} :
        (bothHave("tensile_strength", v) /\ absentOn("corrosion_resistance"))
        => /\ (\A p \in numericRest : absentOn(p))
              => call.result = JsAdd(Fin(1000, 56), bonusOf)
           /\ (\A p \in numericRest : bothHave(p, Num(50)))
              => call.result = JsAdd(Fin(4900, 56), bonusOf)

\* tensile_strength -100 on both records, every other property NULL on a side
C12_Witness ==
    /\ scoreDone
    /\ bothHave("tensile_strength", Num(-100))
    /\ absentOn("corrosion_resistance")
    /\ \A p \in numericRest : absentOn(p)
    /\ call.original.category = call.alternative.category
    /\ call.result = JsAdd(Fin(1000, 56), Num(10))

\* C13: the score returned is min(100, weighted property sum + bonus), the
\* bonus being 10 for equal categories and 0 otherwise
C13_BonusAndCap ==
    scoreDone =>
      call.result =
        MathMin(Num(100),
                JsAdd(propertySum(call.original, call.alternative, Len(properties)),
                      bonusOf))

\* equal categories, a sum below 90: the bonus shows in the score
C13_Witness ==
    /\ scoreDone
    /\ call.original.category = call.alternative.category
    /\ JsLt(call.result, Num(100))
    /\ JsGt(propertySum(call.original, call.alternative, Len(properties)), Num(0))
    /\ call.result =
         JsAdd(propertySum(call.original, call.alternative, Len(properties)), Num(10))

\* the promise of a call of findAlternatives has settled
alternativesDone == call.fn = "findAlternatives" /\ call.done

\* the positions of the catalog rows that have the name asked for
namedPositions == {i \in 1..Len(db) : db[i].name = call.materialName}

\* the position of the reference record: the first row of that name
referencePosition == CHOOSE i \in namedPositions : \A j \in namedPositions : i <= j

\* the positions of the candidates: the rows other than the reference
candidatePositions == {i \in 1..Len(db) : db[i].id # db[referencePosition].id}

\* the positions of the candidates that are in the result
includedPositions ==
    {i \in candidatePositions : \E k \in 1..Len(call.result) : call.result[k].id = db[i].id}

\* the position in the catalog of the k-th record of the result
positionOf(k) == CHOOSE i \in 1..Len(db) : db[i].id = call.result[k].id

\* the score of the candidate at position i of the catalog
scoreAt(i) == calculateSimilarityScore(db[referencePosition], db[i])

\* C14: when the reference material is in the catalog, every alternative
\* returned is a catalog row other than the reference record
C14_ReferenceExcluded ==
    (alternativesDone /\ namedPositions # {}) =>
      \A k \in 1..Len(call.result) :
        /\ call.result[k].id # db[referencePosition].id
        /\ \E i \in candidatePositions :
             \A f \in DOMAIN db[i] : call.result[k][f] = db[i][f]

\* a catalog of MaxRows rows, the reference its third row, five alternatives
C14_Witness ==
    /\ alternativesDone
    /\ Len(db) = MaxRows
    /\ call.materialName = MaterialName(3)
    /\ Len(call.result) = 5
    /\ \A k \in 1..5 : call.result[k].id # 3

\* C15: findAlternatives resolves with min(5, number of candidates)
\* records, each with its own score, in non-increasing order of score, and
\* no candidate left out has a higher score than one that is included
C15_RankedTopFive ==
    (alternativesDone /\ namedPositions # {}) =>
      /\ Len(call.result) =
           IF Cardinality(candidatePositions) < 5
           THEN Cardinality(candidatePositions) ELSE 5
      /\ Cardinality(includedPositions) = Len(call.result)
      /\ \A k \in 1..Len(call.result) :
           call.result[k].similarity_score = scoreAt(positionOf(k))
      /\ \A k \in 1..(Len(call.result) - 1) :
           JsGe(call.result[k].similarity_score, call.result[k + 1].similarity_score)
      /\ \A i \in candidatePositions \ includedPositions :
           \A k \in 1..Len(call.result) :
             JsLe(scoreAt(i), call.result[k].similarity_score)

\* six candidates of at least three different scores: the last of the five
\* kept scores less than the first and more than the candidate left out
C15_Witness ==
    /\ alternativesDone
    /\ namedPositions # {}
    /\ Cardinality(candidatePositions) = 6
    /\ Len(call.result) = 5
    /\ JsGt(call.result[1].similarity_score, call.result[5].similarity_score)
    /\ \E i \in candidatePositions \ includedPositions :
         JsLt(scoreAt(i), call.result[5].similarity_score)

\* C16: candidates of equal score are in the result in the order of the
\* catalog, and a candidate left out with the score of one that is included
\* comes later in the catalog
C16_StableRanking ==
    (alternativesDone /\ namedPositions # {}) =>
      /\ \A k, l \in 1..Len(call.result) :
           (k < l /\ call.result[k].similarity_score = call.result[l].similarity_score)
           => positionOf(k) < positionOf(l)
      /\ \A i \in candidatePositions \ includedPositions :
           \A k \in 1..Len(call.result) :
             scoreAt(i) = call.result[k].similarity_score => positionOf(k) < i

\* a tie across the cut: the fifth alternative and the candidate left out
\* have the same score, and so have the fourth and the fifth
C16_Witness ==
    /\ alternativesDone
    /\ namedPositions # {}
    /\ Len(call.result) = 5
    /\ call.result[4].similarity_score = call.result[5].similarity_score
    /\ positionOf(4) < positionOf(5)
    /\ \E i \in candidatePositions \ includedPositions :
         /\ scoreAt(i) = call.result[5].similarity_score
         /\ positionOf(5) < i

\* C17: when no catalog row has the name of the material, findAlternatives
\* resolves with the empty list: processFile returns with no alternatives
\* and, weight and cost once computed, the answer sent is a result
C17_UnknownMaterialNoAlternatives ==
    rowsNamed(db, proc.material) = <<>> =>
      /\ pc = "resolved" => proc.alternatives = <<>>
      /\ (pc = "responded" /\ ~IsNull(proc.cost))
         => /\ response.status = 200
            /\ response.material = proc.material
            /\ response.alternatives = <<>>

\* the answer to a STEP file whose material hint names no catalog row
C17_Witness ==
    /\ pc = "responded"
    /\ response.status = 200
    /\ stepPromise = "resolved"
    /\ rowsNamed(db, response.material) = <<>>
    /\ response.alternatives = <<>>

\* a call of compareMaterials has returned
compareDone == call.fn = "compareMaterials" /\ call.done

\* length * width * height of the dimensions of the call
volumeGiven ==
    JsMul(JsMul(call.dimensions.length, call.dimensions.width), call.dimensions.height)

C19_DeltaConsistent ==
    compareDone =>
      \A key \in DOMAIN call.result :
        LET delta == call.result[key]
        IN  /\ delta.difference = JsSub(delta.alternative, delta.original)
            /\ JsStrictNe(delta.original, Num(0))
               => delta.percent_change =
                    JsMul(JsDiv(delta.difference, delta.original), Num(100))
            /\ delta.original = Num(0) => delta.percent_change = Num(0)
            /\ key \in {"tensile_strength", "yield_strength", "elastic_modulus"}
               => /\ delta.original = call.original[key]
                  /\ delta.alternative = call.alternative[key]

\* an original of weight, cost and tensile_strength 0 against an alternative
\* where they are not 0
C19_Witness ==
    /\ compareDone
    /\ call.result.weight.original = Num(0)
    /\ JsGt(call.result.weight.alternative, Num(0))
    /\ call.result.weight.percent_change = Num(0)
    /\ "tensile_strength" \in DOMAIN call.result
    /\ call.result.tensile_strength.original = Num(0)
    /\ JsGt(call.result.tensile_strength.difference, Num(0))
    /\ call.result.tensile_strength.percent_change = Num(0)

\* the weight a recalculation of the request in flight has to give: the
\* density of the material, 7.85 when no row has its name, times the volume
\* of the request, divided by 1000000
weightDue ==
    LET rows == rowsNamed(db, call.material)
    IN  JsDiv(JsMul(IF rows = <<>> THEN Fin(785, 100) ELSE Head(rows).density,
                    parseFloat(call.volume)),
              Num(1000000))

\* the cost it has to give: cost_per_kg, 2 when no row has the name, times
\* that weight
costDue ==
    LET rows == rowsNamed(db, call.material)
    IN  JsMul(weightDue, IF rows = <<>> THEN Num(2) ELSE Head(rows).cost_per_kg)

\* C20: a request of POST /recalculate, its material given, whose volume
\* parses to NaN or to a number <= 0 is answered with an error in the
\* handler itself, before calculateWeight, calculateCost or a lookup in the
\* catalog; the catalog stays as it was and a request served later gets the
\* weight and the cost of its own material and volume
C20_InvalidVolumeRejected ==
    [][/\ (/\ call.fn = "recalculate"
           /\ call.stage = "idle"
           /\ call' # call
           /\ call'.material # <<>>
           /\ \/ IsNaN(parseFloat(call'.volume))
              \/ JsLe(parseFloat(call'.volume), Num(0)))
          => /\ response'.status = 400
             /\ call'.stage = "idle"
             /\ call'.lookups = call.lookups
             /\ call'.weight = call.weight
       /\ (call.fn = "recalculate" /\ call.stage = "calculateCost")
          => /\ response'.status = 200
             /\ response'.weight = weightDue
             /\ response'.cost = costDue
       /\ call.fn = "recalculate" => db' = db]_vars

\* a request answered with weight and cost behind one rejected for its
\* volume, the two lookups being those of the request answered
C20_Witness ==
    /\ call.fn = "recalculate"
    /\ call.served = 2
    /\ call.invalidVolumes = 1
    /\ call.lookups = 2
    /\ response.status = 200
    /\ response.weight = Fin(787, 100000)

\* the lines read so far
linesOf(content) == split(content, "\n")

\* the positions of the lines that hold the PRODUCT marker and a quoted
\* string
productLines(ls) ==
    {i \in 1..Len(ls) : includes(ls[i], PRODUCT) /\ firstQuoted(ls[i]) # <<>>}

\* C22: the product name parseStepFile resolves with is the first quoted
\* string of the first line read that holds the PRODUCT marker and a quoted
\* string, whatever PRODUCT lines follow it
C22_FirstProductWins ==
    pc = "stepResolved" =>
      LET ls == linesOf(fileContent)
          hits == productLines(ls)
      IN  stepData.productName =
            IF hits = {} THEN <<>> ELSE firstQuoted(ls[MinOfSet(hits)])

\* PRODUCT('Axe') read first, then PRODUCT('Rondelle')
C22_Witness ==
    /\ pc = "stepResolved"
    /\ fileContent = Line_product_other \o <<"\n">> \o Line_product_washer \o <<"\n">>
    /\ stepData.productName = <<"A", "x", "e">>

\* the lines that hold an ANNOTATION, NOTE or REMARK marker and a quoted
\* string, in their order
annotatedLines(ls) ==
    SelectSeq(ls, LAMBDA l : /\ \/ includes(l, ANNOTATION)
                                \/ includes(l, NOTE)
                                \/ includes(l, REMARK)
                             /\ firstQuoted(l) # <<>>)

\* C23: the annotations parseStepFile resolves with are the first quoted
\* strings of the lines read that hold an ANNOTATION, NOTE or REMARK marker
\* and a quoted string, in the order read; other lines add nothing
C23_AnnotationsInOrder ==
    pc = "stepResolved" =>
      LET marked == annotatedLines(linesOf(fileContent))
      IN  stepData.annotations =
            [k \in 1..Len(marked) |-> firstQuoted(marked[k])]

\* NOTE('Ra'), a bare NOTE and REMARK('h7') read in this order
C23_Witness ==
    /\ pc = "stepResolved"
    /\ fileContent = Line_note \o <<"\n">> \o Line_note_bare \o <<"\n">>
                       \o Line_remark_circle_zero \o <<"\n">>
    /\ stepData.annotations = <<<<"R", "a">>, <<"h", "7">>>>

\* C24: every element of circles is a number greater than 0
C24_RadiiPositive ==
    \A k \in 1..Len(circles) : JsGt(circles[k], Num(0))

\* C25: in an answer to an upload, every alternative's comparison has the
\* weight and the cost of the answer as its original weight and cost
C25_ComparisonAtReportedVolume ==
    response.status = 200 =>
      \A k \in 1..Len(response.alternatives) :
        /\ response.alternatives[k].comparison.weight.original = response.weight
        /\ response.alternatives[k].comparison.cost.original = response.cost

\* C26: when parseStepFile has resolved, the answer to the upload is a
\* result
C26_StepAlwaysAnswered ==
    (stepPromise = "resolved" /\ pc = "responded") => response.status = 200

\* the locals of a call that reads the first n lines of a stream with no
\* other call running
RECURSIVE scannedAlone(_, _)
scannedAlone(stream, n) ==
    IF n = 0 THEN newLocals
    ELSE lineHandler(scannedAlone(stream, n - 1), stream[n])

\* the locals of a call without its progress marks
scanState(loc) ==
    [fileContent |-> loc.fileContent,
     productName |-> loc.productName,
     materialInfo |-> loc.materialInfo,
     boundingBox |-> loc.boundingBox,
     cartesianPoints |-> loc.cartesianPoints,
     annotations |-> loc.annotations,
     circles |-> loc.circles]

\* C21: however the line and close events of two calls of parseStepFile
\* interleave, each call holds after every event what it holds when it
\* reads the same lines alone, and resolves with a value it resolves with
\* when run alone
C21_ExtractionsIndependent ==
    call.fn = "parseStepFile" =>
      \A e \in 1..2 :
        /\ scanState(call.ex[e]) =
             scanState(scannedAlone(call.streams[e], call.ex[e].read))
        /\ call.ex[e].closed =>
             call.ex[e].stepData \in
               closeResults(scannedAlone(call.streams[e], Len(call.streams[e])))

\* both calls have resolved after interleaved events, one with the washer
\* and its circle, the other with a point, a note and no product
C21_Witness ==
    /\ call.fn = "parseStepFile"
    /\ call.interleaved
    /\ call.ex[1].closed /\ call.ex[2].closed
    /\ call.ex[1].stepData.productName = <<"R", "o", "n", "d", "e", "l", "l", "e">>
    /\ Len(call.ex[1].stepData.circles) = 1
    /\ call.ex[2].stepData.productName = <<>>
    /\ Len(call.ex[2].stepData.cartesianPoints) = 1
    /\ call.ex[2].stepData.annotations = <<<<"R", "a">>>>
    /\ call.ex[2].stepData.circles = <<>>

\* whether the component shows the given weight and cost
shows(answer) ==
    /\ answer.status = 200
    /\ call.weight = answer.weight
    /\ call.cost = answer.cost

\* whether the last /recalculate request sent was for what is selected now
requestedCurrent ==
    /\ call.requested # Null
    /\ call.requested.material = call.selectedMaterial
    /\ call.requested.volume = call.volume

\* C27: when the last answer to the /recalculate requests sent has just
\* arrived, and the last request was for the material and the volume
\* selected now, the weight and the cost shown are those of that material
\* at that volume
C27_ShownMatchesSelection ==
    (/\ call.fn = "app"
     /\ call.op = "recalculateWeight.then"
     /\ call.recalcs = {}
     /\ requestedCurrent) =>
      shows(recalculateAnswer(SeedTable, call.selectedMaterial, call.volume))

\* C28: from a resetAnalysis until an upload or a load of a project is
\* started, analysisResult is null and dimensions, volume, weight and cost
\* are 0
C28_ResetStays ==
    (call.fn = "app" /\ call.cleared) =>
      /\ call.analysisResult = Null
      /\ call.dimensions = ZeroDimensions
      /\ call.volume = Num(0)
      /\ call.weight = Num(0)
      /\ call.cost = Num(0)

\* a step of uploadFile itself, up to its call of fetch
uploadFileStep == call.fn = "app" /\ call'.op = "uploadFile" /\ call' # call

\* C29: uploadFile with a file selected sets isAnalyzing and sends one
\* request; with no file selected it shows an error, sends nothing and
\* leaves isAnalyzing as it is; and whenever isAnalyzing is true it becomes
\* false again, whichever way the request settles
C29_AnalyzingEnds ==
    /\ [][uploadFileStep =>
            IF call.selectedFile
            THEN /\ call'.isAnalyzing
                 /\ call'.uploads = call.uploads + 1
            ELSE /\ call'.showErrorModal
                 /\ call'.errorMessage = "Veuillez selectionner un fichier"
                 /\ call'.uploads = call.uploads
                 /\ call'.isAnalyzing = call.isAnalyzing]_vars
    /\ (call.fn = "app" /\ call.isAnalyzing) ~> (~call.isAnalyzing)

\* an upload was sent and answered with a status that is not OK: the error
\* is shown and isAnalyzing is false again
C29_Witness ==
    /\ call.fn = "app"
    /\ call.op = "uploadFile.then"
    /\ call.started >= 1
    /\ call.uploads = 0
    /\ ~call.isAnalyzing
    /\ call.analysisResult = Null
    /\ call.errorMessage = "Erreur: Erreur lors du telechargement du fichier"

\* C30: a load answers with exactly the project data saved under the id
\* asked for, each save is answered with an id of its own, and a load of an
\* id no save was answered with is answered with 404
C30_SaveLoadRoundTrip ==
    call.fn = "projects" =>
      /\ \A r1, r2 \in call.receipts : r1.project_id = r2.project_id => r1 = r2
      /\ call.asked # 0 =>
           IF \E r \in call.receipts : r.project_id = call.asked
           THEN /\ response.status = 200
                /\ \A r \in call.receipts :
                     r.project_id = call.asked =>
                       response.projectData = r.projectData
           ELSE response.status = 404

=============================================================================
